---- MODULE Spec2Model ----
(***************************************************************************)
(* A model of the json-validate repair engine (tools/repair.js, shipped in *)
(* dist/cli.js) and of the validation entry point (tools/validate.ts).     *)
(*                                                                         *)
(* JSON values are records of one shape, so that any two of them can be    *)
(* compared:                                                               *)
(*   k     the runtime kind: "null", "boolean", "number", "string",        *)
(*         "array", "object", or "undefined" (the JavaScript undefined)    *)
(*   n     a number in tenths (307 is 30.7); for a boolean 1 or 0          *)
(*   s     the text of a string                                            *)
(*   keys  the keys of an object, in insertion order                       *)
(*   c     the children: the elements of an array, or the values of an     *)
(*         object in the order of keys                                     *)
(*   owner who holds the reference to a container: "caller" (the input     *)
(*         handed to the call), "schema" (a default inside the schema) or  *)
(*         "own" (allocated by this call)                                  *)
(***************************************************************************)
EXTENDS Integers, Sequences, FiniteSets, TLC

JNull == [k |-> "null", n |-> 0, s |-> "", keys |-> <<>>, c |-> <<>>, owner |-> "own"]
Undefined == [k |-> "undefined", n |-> 0, s |-> "", keys |-> <<>>, c |-> <<>>, owner |-> "own"]
JBool(b) == [k |-> "boolean", n |-> IF b THEN 1 ELSE 0, s |-> "", keys |-> <<>>, c |-> <<>>, owner |-> "own"]
JNum(tenths) == [k |-> "number", n |-> tenths, s |-> "", keys |-> <<>>, c |-> <<>>, owner |-> "own"]
JStr(text) == [k |-> "string", n |-> 0, s |-> text, keys |-> <<>>, c |-> <<>>, owner |-> "own"]
JArr(elems, who) == [k |-> "array", n |-> 0, s |-> "", keys |-> <<>>, c |-> elems, owner |-> who]
JObj(names, vals, who) == [k |-> "object", n |-> 0, s |-> "", keys |-> names, c |-> vals, owner |-> who]

JTrue == JBool(TRUE)
JFalse == JBool(FALSE)
IsContainer(v) == v.k \in {"array", "object"}

\* Index of name in the sequence names, 0 when it is not there.
IndexOf(names, name) ==
    IF \E i \in 1..Len(names) : names[i] = name
    THEN CHOOSE i \in 1..Len(names) : names[i] = name
    ELSE 0

\* `key in obj` for a plain object.
HasKey(obj, key) == obj.k = "object" /\ IndexOf(obj.keys, key) > 0

\* obj[key]: the value, or undefined.
GetKey(obj, key) == IF HasKey(obj, key) THEN obj.c[IndexOf(obj.keys, key)] ELSE Undefined

\* obj[key] = val: replaces in place, or appends the key (insertion order).
SetKey(obj, key, val) ==
    IF HasKey(obj, key)
    THEN [obj EXCEPT !.c[IndexOf(obj.keys, key)] = val]
    ELSE [obj EXCEPT !.keys = Append(obj.keys, key), !.c = Append(obj.c, val)]

RemoveAt(seq, i) == [j \in 1..(Len(seq) - 1) |-> IF j < i THEN seq[j] ELSE seq[j + 1]]

\* delete obj[key]
DeleteKey(obj, key) ==
    IF HasKey(obj, key)
    THEN [obj EXCEPT !.keys = RemoveAt(obj.keys, IndexOf(obj.keys, key)),
                     !.c = RemoveAt(obj.c, IndexOf(obj.keys, key))]
    ELSE obj

RECURSIVE WithOwner(_, _)
\* The same value with every container held by who: what a fresh copy is.
WithOwner(v, who) ==
    IF IsContainer(v)
    THEN [v EXCEPT !.owner = who, !.c = [i \in 1..Len(v.c) |-> WithOwner(v.c[i], who)]]
    ELSE v

\* A deep copy that keeps the references of the original: the bug of copying
\* by reference.
DeepCloneShared(obj) == obj

\* deepClone: JSON.parse(JSON.stringify(obj)), a fresh value sharing nothing.
deepClone(obj) == WithOwner(obj, "own")

\* typeof value
TypeOf(v) ==
    CASE v.k \in {"null", "array", "object"} -> "object"
      [] OTHER -> v.k

\* The runtime type applyTypeCoercion compares with the schema's types.
CurrentType(v) ==
    CASE v.k = "array" -> "array"
      [] v.k = "null" -> "null"
      [] OTHER -> TypeOf(v)

\* String(n) for a number held in tenths.
NumToString(t) ==
    LET a == IF t < 0 THEN -t ELSE t
        whole == ToString(a \div 10)
        frac == IF a % 10 = 0 THEN "" ELSE "." \o ToString(a % 10)
    IN (IF t < 0 THEN "-" ELSE "") \o whole \o frac

RECURSIVE StringOf(_)
RECURSIVE JoinFrom(_, _)
\* Array.prototype.join(","): null and undefined elements print as "".
JoinFrom(elems, i) ==
    IF i > Len(elems) THEN ""
    ELSE (IF elems[i].k \in {"null", "undefined"} THEN "" ELSE StringOf(elems[i]))
         \o (IF i < Len(elems) THEN "," ELSE "")
         \o JoinFrom(elems, i + 1)

\* String(value)
StringOf(v) ==
    CASE v.k = "string" -> v.s
      [] v.k = "number" -> NumToString(v.n)
      [] v.k = "boolean" -> IF v.n = 1 THEN "true" ELSE "false"
      [] v.k = "null" -> "null"
      [] v.k = "undefined" -> "undefined"
      [] v.k = "array" -> JoinFrom(v.c, 1)
      [] OTHER -> "[object Object]"

\* The numbers whose decimal text the model's strings can hold.
NumLits == {0, 10, 50, 300, 307}

\* !isNaN(Number(text)): the empty string converts to 0.
IsNumeric(text) == text = "" \/ \E t \in NumLits : NumToString(t) = text

\* Number(text), in tenths, for a text that converts.
NumberOf(text) ==
    IF text = "" THEN 0 ELSE CHOOSE t \in NumLits : NumToString(t) = text

\* Math.round: to the nearest integer, a half rounds up.
MathRound(t) == ((t + 5) \div 10) * 10

\* value.toLowerCase() on the strings the model holds.
ToLowerCase(text) ==
    CASE text = "TRUE" -> "true"
      [] text = "True" -> "true"
      [] text = "FALSE" -> "false"
      [] OTHER -> text

(***************************************************************************)
(* Schema nodes.  type holds the declared type names (typeIsList says      *)
(* whether `type` was written as a list); hasProps, items, default say     *)
(* whether the keyword is present; addl is additionalProperties            *)
(* ("absent", "true" or "false").                                          *)
(***************************************************************************)
EmptySchema ==
    [type |-> <<>>, typeIsList |-> FALSE, hasProps |-> FALSE, propNames |-> <<>>,
     propSchemas |-> <<>>, items |-> <<>>, required |-> <<>>, addl |-> "absent",
     default |-> <<>>, patNames |-> <<>>, patSchemas |-> <<>>]

\* schema.type === t
TypeIs(schema, t) == ~schema.typeIsList /\ schema.type = <<t>>
\* schema.default !== undefined
HasDefault(schema) == schema.default # <<>>
\* schema.items is there
HasItems(schema) == schema.items # <<>>
\* name in properties, with properties = schema.properties || {}
Declared(schema, name) == IndexOf(schema.propNames, name) > 0
PropSchema(schema, name) == schema.propSchemas[IndexOf(schema.propNames, name)]
\* required.includes(name)
RequiredIncludes(schema, name) == IndexOf(schema.required, name) > 0

\* new RegExp(pattern).test(key), for the patterns and keys of the model.
RegExpTest(pattern, key) ==
    \/ pattern = "^x" /\ key \in {"x1", "x/y"}
    \/ pattern = "^d" /\ key \in {"data"}

\* patternProps && Object.keys(patternProps).some(p => new RegExp(p).test(key))
MatchesPattern(schema, key) ==
    \E i \in 1..Len(schema.patNames) : RegExpTest(schema.patNames[i], key)

\* One record of the change ledger.  from and to hold at most one value.
Change(path, action, from, to, reason) ==
    [path |-> path, action |-> action, from |-> from, to |-> to, reason |-> reason]

\* tryCoerce: the value converted to targetType, and whether that worked.
tryCoerce(value, targetType) ==
    IF value.k \in {"null", "undefined"} THEN [coerced |-> value, success |-> FALSE]
    ELSE CASE targetType = "string" /\ TypeOf(value) # "string" ->
                [coerced |-> JStr(StringOf(value)), success |-> TRUE]
           [] targetType \in {"number", "integer"} /\ TypeOf(value) = "string"
                /\ IsNumeric(value.s) ->
                [coerced |-> JNum(IF targetType = "integer"
                                  THEN MathRound(NumberOf(value.s))
                                  ELSE NumberOf(value.s)),
                 success |-> TRUE]
           [] targetType \in {"number", "integer"} /\ TypeOf(value) = "boolean" ->
                [coerced |-> JNum(IF value.n = 1 THEN 10 ELSE 0), success |-> TRUE]
           [] targetType = "boolean" /\ TypeOf(value) = "string"
                /\ (ToLowerCase(value.s) = "true" \/ value.s = "1") ->
                [coerced |-> JTrue, success |-> TRUE]
           [] targetType = "boolean" /\ TypeOf(value) = "string"
                /\ (ToLowerCase(value.s) = "false" \/ value.s = "0" \/ value.s = "") ->
                [coerced |-> JFalse, success |-> TRUE]
           [] targetType = "boolean" /\ TypeOf(value) = "number" ->
                [coerced |-> JBool(value.n # 0), success |-> TRUE]
           [] targetType = "array" /\ value.k # "array" ->
                [coerced |-> JArr(<<value>>, "own"), success |-> TRUE]
           [] targetType = "null" /\ value.k = "string" /\ value.s \in {"", "null"} ->
                [coerced |-> JNull, success |-> TRUE]
           [] OTHER -> [coerced |-> value, success |-> FALSE]

\* `${path}/${segment}`
Join(path, segment) == path \o "/" \o segment
\* The text of array index i (arrays are 1-based here, 0-based in the code).
IndexText(i) == ToString(i - 1)

(***************************************************************************)
(* The Additional-Property Pruner.  Every pass returns the new value v and *)
(* the ledger ch.                                                          *)
(***************************************************************************)
\* The keys the first loop collects in keysToRemove, in Object.keys order.
KeysToRemove(obj, schema) ==
    SelectSeq(obj.keys,
              LAMBDA key : schema.addl = "false" /\ ~Declared(schema, key)
                           /\ ~MatchesPattern(schema, key))

RECURSIVE RemoveKeys(_, _, _, _, _)
\* The second loop: delete each collected key and log it.
RemoveKeys(obj, doomed, path, changes, i) ==
    IF i > Len(doomed) THEN [v |-> obj, ch |-> changes]
    ELSE RemoveKeys(DeleteKey(obj, doomed[i]), doomed, path,
                    Append(changes,
                           Change(Join(path, doomed[i]), "removed",
                                  <<GetKey(obj, doomed[i])>>, <<>>,
                                  "Property not allowed by schema (additionalProperties: false)")),
                    i + 1)

RECURSIVE removeAdditionalProperties(_, _, _, _)
RECURSIVE PruneItems(_, _, _, _, _)
RECURSIVE PruneProps(_, _, _, _, _, _)

\* obj.forEach((item, index) => removeAdditionalProperties(item, itemSchema, ...))
PruneItems(arr, itemSchema, path, changes, i) ==
    IF i > Len(arr.c) THEN [v |-> arr, ch |-> changes]
    ELSE LET r == removeAdditionalProperties(arr.c[i], itemSchema, Join(path, IndexText(i)), changes)
         IN PruneItems([arr EXCEPT !.c[i] = r.v], itemSchema, path, r.ch, i + 1)

\* The first loop: a key that stays and is declared is pruned below.
PruneProps(obj, keys, schema, path, changes, i) ==
    IF i > Len(keys) THEN [v |-> obj, ch |-> changes]
    ELSE LET key == keys[i]
             doomed == schema.addl = "false" /\ ~Declared(schema, key)
                       /\ ~MatchesPattern(schema, key)
         IN IF ~doomed /\ Declared(schema, key)
            THEN LET r == removeAdditionalProperties(GetKey(obj, key), PropSchema(schema, key),
                                                     Join(path, key), changes)
                 IN PruneProps(SetKey(obj, key, r.v), keys, schema, path, r.ch, i + 1)
            ELSE PruneProps(obj, keys, schema, path, changes, i + 1)

removeAdditionalProperties(obj, schema, path, changes) ==
    IF obj.k \notin {"array", "object"} THEN [v |-> obj, ch |-> changes]
    ELSE IF obj.k = "array"
    THEN IF HasItems(schema)
         THEN PruneItems(obj, schema.items[1], path, changes, 1)
         ELSE [v |-> obj, ch |-> changes]
    ELSE IF TypeIs(schema, "object") \/ schema.hasProps
    THEN LET r == PruneProps(obj, obj.keys, schema, path, changes, 1)
         IN RemoveKeys(r.v, KeysToRemove(obj, schema), path, r.ch, 1)
    ELSE [v |-> obj, ch |-> changes]

(***************************************************************************)
(* The Type Coercer.                                                       *)
(***************************************************************************)
RECURSIVE FirstCoercion(_, _, _)
\* for (const targetType of types): the first index whose coercion works, or 0.
FirstCoercion(obj, types, i) ==
    IF i > Len(types) THEN 0
    ELSE IF tryCoerce(obj, types[i]).success THEN i
    ELSE FirstCoercion(obj, types, i + 1)

RECURSIVE applyTypeCoercion(_, _, _, _)
RECURSIVE CoerceProps(_, _, _, _, _)
RECURSIVE CoerceItems(_, _, _, _, _)

CoerceProps(obj, schema, path, changes, i) ==
    IF i > Len(schema.propNames) THEN [v |-> obj, ch |-> changes]
    ELSE LET propName == schema.propNames[i]
         IN IF HasKey(obj, propName)
            THEN LET r == applyTypeCoercion(GetKey(obj, propName), schema.propSchemas[i],
                                            Join(path, propName), changes)
                 IN CoerceProps(SetKey(obj, propName, r.v), schema, path, r.ch, i + 1)
            ELSE CoerceProps(obj, schema, path, changes, i + 1)

\* obj.map(...): a new array.
CoerceItems(arr, itemSchema, path, changes, i) ==
    IF i > Len(arr.c) THEN [v |-> [arr EXCEPT !.owner = "own"], ch |-> changes]
    ELSE LET r == applyTypeCoercion(arr.c[i], itemSchema, Join(path, IndexText(i)), changes)
         IN CoerceItems([arr EXCEPT !.c[i] = r.v], itemSchema, path, r.ch, i + 1)

applyTypeCoercion(obj, schema, path, changes) ==
    IF schema.type = <<>> /\ ~schema.typeIsList THEN [v |-> obj, ch |-> changes]
    ELSE LET types == schema.type
             currentType == CurrentType(obj)
         IN IF \E i \in 1..Len(types) : types[i] = currentType
            THEN IF currentType = "object" /\ schema.hasProps
                 THEN CoerceProps(obj, schema, path, changes, 1)
                 ELSE IF currentType = "array" /\ HasItems(schema)
                 THEN CoerceItems(obj, schema.items[1], path, changes, 1)
                 ELSE [v |-> obj, ch |-> changes]
            ELSE LET hit == FirstCoercion(obj, types, 1)
                 IN IF hit > 0
                    THEN [v |-> tryCoerce(obj, types[hit]).coerced,
                          ch |-> Append(changes,
                                  Change(path, "coerced", <<obj>>,
                                         <<tryCoerce(obj, types[hit]).coerced>>,
                                         "Coerced " \o TypeOf(obj) \o " to " \o types[hit]))]
                    ELSE [v |-> obj, ch |-> changes]

(***************************************************************************)
(* The Default Applicator.                                                 *)
(***************************************************************************)
\* A default applicator that also fills a required string with "".
RequiredSkeletonInventsString(schema, propName, propSchema) ==
    IF RequiredIncludes(schema, propName) /\ TypeIs(propSchema, "object")
    THEN [add |-> TRUE, v |-> JObj(<<>>, <<>>, "own"), reason |-> "Added required object property"]
    ELSE IF RequiredIncludes(schema, propName) /\ TypeIs(propSchema, "array")
    THEN [add |-> TRUE, v |-> JArr(<<>>, "own"), reason |-> "Added required array property"]
    ELSE IF RequiredIncludes(schema, propName) /\ TypeIs(propSchema, "string")
    THEN [add |-> TRUE, v |-> JStr(""), reason |-> "Added required string property"]
    ELSE [add |-> FALSE, v |-> Undefined, reason |-> ""]

\* A default applicator that adds the empty container for every missing
\* property, required or not, whatever its type.
RequiredSkeletonForAll(schema, propName, propSchema) ==
    [add |-> TRUE, v |-> JObj(<<>>, <<>>, "own"), reason |-> "Added required object property"]

\* Lines 355-377: what is added for a missing property that has no default:
\* an empty container for a required object or array, nothing otherwise.
RequiredSkeleton(schema, propName, propSchema) ==
    IF RequiredIncludes(schema, propName) /\ TypeIs(propSchema, "object")
    THEN [add |-> TRUE, v |-> JObj(<<>>, <<>>, "own"), reason |-> "Added required object property"]
    ELSE IF RequiredIncludes(schema, propName) /\ TypeIs(propSchema, "array")
    THEN [add |-> TRUE, v |-> JArr(<<>>, "own"), reason |-> "Added required array property"]
    ELSE [add |-> FALSE, v |-> Undefined, reason |-> ""]

RECURSIVE applyDefaults(_, _, _, _)
RECURSIVE DefaultProps(_, _, _, _, _)
RECURSIVE DefaultItems(_, _, _, _, _)

\* A property loop that stores a default under the property's path instead
\* of its name.
DefaultPropsUnderPath(obj, schema, path, changes, i) ==
    IF i > Len(schema.propNames) THEN [v |-> obj, ch |-> changes]
    ELSE LET propName == schema.propNames[i]
             propSchema == schema.propSchemas[i]
             propPath == Join(path, propName)
         IN IF ~HasKey(obj, propName)
            THEN IF HasDefault(propSchema)
                 THEN DefaultProps(SetKey(obj, propPath, deepClone(propSchema.default[1])),
                                   schema, path,
                                   Append(changes,
                                          Change(propPath, "defaulted", <<>>, propSchema.default,
                                                 "Applied schema default value")),
                                   i + 1)
                 ELSE DefaultProps(obj, schema, path, changes, i + 1)
            ELSE LET r == applyDefaults(GetKey(obj, propName), propSchema, propPath, changes)
                 IN DefaultProps(SetKey(obj, propName, r.v), schema, path, r.ch, i + 1)

\* for (const [propName, propSchema] of Object.entries(properties))
DefaultProps(obj, schema, path, changes, i) ==
    IF i > Len(schema.propNames) THEN [v |-> obj, ch |-> changes]
    ELSE LET propName == schema.propNames[i]
             propSchema == schema.propSchemas[i]
             propPath == Join(path, propName)
         IN IF ~HasKey(obj, propName)
            THEN IF HasDefault(propSchema)
                 THEN DefaultProps(SetKey(obj, propName, deepClone(propSchema.default[1])),
                                   schema, path,
                                   Append(changes,
                                          Change(propPath, "defaulted", <<>>, propSchema.default,
                                                 "Applied schema default value")),
                                   i + 1)
                 ELSE IF RequiredSkeleton(schema, propName, propSchema).add
                 THEN DefaultProps(SetKey(obj, propName,
                                          RequiredSkeleton(schema, propName, propSchema).v),
                                   schema, path,
                                   Append(changes,
                                          Change(propPath, "added", <<>>,
                                                 <<RequiredSkeleton(schema, propName, propSchema).v>>,
                                                 RequiredSkeleton(schema, propName, propSchema).reason)),
                                   i + 1)
                 ELSE DefaultProps(obj, schema, path, changes, i + 1)
            ELSE LET r == applyDefaults(GetKey(obj, propName), propSchema, propPath, changes)
                 IN DefaultProps(SetKey(obj, propName, r.v), schema, path, r.ch, i + 1)

\* obj.map((item, index) => applyDefaults(item, itemSchema, ...)): a new array.
DefaultItems(arr, itemSchema, path, changes, i) ==
    IF i > Len(arr.c) THEN [v |-> [arr EXCEPT !.owner = "own"], ch |-> changes]
    ELSE LET r == applyDefaults(arr.c[i], itemSchema, Join(path, IndexText(i)), changes)
         IN DefaultItems([arr EXCEPT !.c[i] = r.v], itemSchema, path, r.ch, i + 1)

applyDefaults(obj, schema, path, changes) ==
    IF TypeIs(schema, "object") \/ schema.hasProps
    THEN IF obj.k # "object"
         THEN IF HasDefault(schema)
              THEN [v |-> deepClone(schema.default[1]),
                    ch |-> Append(changes,
                                  Change(path, "defaulted", <<obj>>, schema.default,
                                         "Applied schema default for missing object"))]
              ELSE DefaultProps(JObj(<<>>, <<>>, "own"), schema, path, changes, 1)
         ELSE DefaultProps(obj, schema, path, changes, 1)
    ELSE IF TypeIs(schema, "array") /\ HasItems(schema)
    THEN IF obj.k # "array"
         THEN IF HasDefault(schema)
              THEN [v |-> deepClone(schema.default[1]),
                    ch |-> Append(changes,
                                  Change(path, "defaulted", <<obj>>, schema.default,
                                         "Applied schema default for non-array value"))]
              ELSE [v |-> obj, ch |-> changes]
         ELSE DefaultItems(obj, schema.items[1], path, changes, 1)
    ELSE IF obj.k = "undefined" /\ HasDefault(schema)
    THEN [v |-> schema.default[1],
          ch |-> Append(changes,
                        Change(path, "defaulted", <<>>, schema.default,
                               "Applied schema default value"))]
    ELSE [v |-> obj, ch |-> changes]

(***************************************************************************)
(* The schema check (Ajv, allErrors).  An error is a keyword, the instance *)
(* path where it was found, and the one parameter that tells two errors of *)
(* a node apart.  With useDefaults the check fills missing properties that *)
(* have a default before it checks an object, and returns the filled value.*)
(***************************************************************************)
JsonTypes == {"null", "boolean", "number", "integer", "string", "array", "object"}

\* Does the data have the JSON Schema type t?
DataHasType(data, t) ==
    CASE t = "integer" -> data.k = "number" /\ data.n % 10 = 0
      [] OTHER -> data.k = t

\* The text of a key inside an instance path (JSON pointer escaping).
EscapePointer(key) == IF key = "x/y" THEN "x~1y" ELSE key

AjvError(keyword, path, param) == [keyword |-> keyword, path |-> path, param |-> param]

RECURSIVE AjvCheck(_, _, _, _)
RECURSIVE AjvAssignDefaults(_, _, _)
RECURSIVE AjvChildren(_, _, _, _, _)

\* assignDefaults: data[key] = default, for each property that is undefined.
AjvAssignDefaults(data, schema, i) ==
    IF i > Len(schema.propNames) THEN data
    ELSE IF ~HasKey(data, schema.propNames[i]) /\ HasDefault(schema.propSchemas[i])
    THEN AjvAssignDefaults(SetKey(data, schema.propNames[i],
                                  deepClone(schema.propSchemas[i].default[1])),
                           schema, i + 1)
    ELSE AjvAssignDefaults(data, schema, i + 1)

\* The sub-schemas that apply to the child under key: properties and
\* patternProperties both apply when both match.
ChildSchemas(schema, key) ==
    (IF Declared(schema, key) THEN <<PropSchema(schema, key)>> ELSE <<>>)
    \o SelectSeq([i \in 1..Len(schema.patNames) |->
                     IF RegExpTest(schema.patNames[i], key)
                     THEN schema.patSchemas[i] ELSE EmptySchema],
                 LAMBDA sub : sub # EmptySchema)

RECURSIVE AjvUnder(_, _, _, _, _)
\* The child checked against each of the sub-schemas that apply to it.
AjvUnder(child, subs, path, useDefaults, j) ==
    IF j > Len(subs) THEN [v |-> child, errs |-> {}]
    ELSE LET r == AjvCheck(child, subs[j], path, useDefaults)
             rest == AjvUnder(r.v, subs, path, useDefaults, j + 1)
         IN [v |-> rest.v, errs |-> r.errs \cup rest.errs]

\* The children of an object or an array, each under its sub-schemas.
AjvChildren(data, schema, path, useDefaults, i) ==
    IF i > Len(data.c) THEN [v |-> data, errs |-> {}]
    ELSE LET subs == IF data.k = "object" THEN ChildSchemas(schema, data.keys[i])
                     ELSE schema.items
             seg == IF data.k = "object" THEN EscapePointer(data.keys[i]) ELSE IndexText(i)
             r == AjvUnder(data.c[i], subs, Join(path, seg), useDefaults, 1)
             rest == AjvChildren([data EXCEPT !.c[i] = r.v], schema, path, useDefaults, i + 1)
         IN [v |-> rest.v, errs |-> r.errs \cup rest.errs]

AjvCheck(data, schema, path, useDefaults) ==
    LET typeErrs == IF Len(schema.type) > 0
                       /\ ~\E i \in 1..Len(schema.type) : DataHasType(data, schema.type[i])
                    THEN {AjvError("type", path, StringOf(JArr([i \in 1..Len(schema.type) |->
                                                               JStr(schema.type[i])], "own")))}
                    ELSE {}
    IN IF data.k = "object"
       THEN LET filled == IF useDefaults /\ schema.hasProps
                          THEN AjvAssignDefaults(data, schema, 1) ELSE data
                below == AjvChildren(filled, schema, path, useDefaults, 1)
                missing == {AjvError("required", path, schema.required[i]) :
                               i \in {j \in 1..Len(schema.required) :
                                         ~HasKey(filled, schema.required[j])}}
                extra == IF schema.addl = "false"
                         THEN {AjvError("additionalProperties", path, filled.keys[i]) :
                                  i \in {j \in 1..Len(filled.keys) :
                                            /\ ~Declared(schema, filled.keys[j])
                                            /\ ~MatchesPattern(schema, filled.keys[j])}}
                         ELSE {}
            IN [v |-> below.v, errs |-> typeErrs \cup below.errs \cup missing \cup extra]
       ELSE IF data.k = "array"
       THEN LET below == AjvChildren(data, schema, path, useDefaults, 1)
            IN [v |-> below.v, errs |-> typeErrs \cup below.errs]
       ELSE [v |-> data, errs |-> typeErrs]

(***************************************************************************)
(* The Text Recovery Pass.  A text is a sequence of characters.            *)
(***************************************************************************)
Digits == <<"0", "1", "2", "3", "4", "5", "6", "7", "8", "9">>
IsDigit(ch) == IndexOf(Digits, ch) > 0
DigitVal(ch) == IndexOf(Digits, ch) - 1
Letters ==
    {"a", "b", "c", "d", "e", "f", "g", "h", "i", "j", "k", "l", "m", "n", "o", "p", "q",
     "r", "s", "t", "u", "v", "w", "x", "y", "z", "A", "B", "C", "D", "E", "F", "G", "H",
     "I", "J", "K", "L", "M", "N", "O", "P", "Q", "R", "S", "T", "U", "V", "W", "X", "Y", "Z"}
\* [a-zA-Z_] and [a-zA-Z0-9_]
IsIdentStart(ch) == ch \in Letters \/ ch = "_"
IsWordChar(ch) == IsIdentStart(ch) \/ IsDigit(ch)
\* \s, and the white space JSON allows
IsSpace(ch) == ch \in {" ", "\n", "\t", "\r"}

CharAt(t, i) == IF i >= 1 /\ i <= Len(t) THEN t[i] ELSE ""

RECURSIVE SkipSpace(_, _)
\* The first position at or after i that holds no white space.
SkipSpace(t, i) == IF IsSpace(CharAt(t, i)) THEN SkipSpace(t, i + 1) ELSE i

\* Does the text hold word at position i?
MatchAt(t, i, word) ==
    /\ i + Len(word) - 1 <= Len(t)
    /\ \A j \in 1..Len(word) : t[i + j - 1] = word[j]

ParseFail == [ok |-> FALSE, v |-> Undefined, next |-> 0]
Parsed(v, next) == [ok |-> TRUE, v |-> v, next |-> next]

RECURSIVE StringBody(_, _, _)
\* The characters of a JSON string up to its closing quote; j is inside it.
StringBody(t, j, acc) ==
    CASE j > Len(t) -> ParseFail
      [] t[j] = "\"" -> Parsed(JStr(acc), j + 1)
      [] t[j] \in {"\n", "\t", "\r"} -> ParseFail
      [] t[j] = "\\" ->
            IF CharAt(t, j + 1) \in {"\"", "\\", "/"}
            THEN StringBody(t, j + 2, acc \o t[j + 1])
            ELSE ParseFail
      [] OTHER -> StringBody(t, j + 1, acc \o t[j])

RECURSIVE DigitsEnd(_, _)
\* The position after the run of digits that starts at i.
DigitsEnd(t, i) == IF IsDigit(CharAt(t, i)) THEN DigitsEnd(t, i + 1) ELSE i

RECURSIVE DigitsValue(_, _, _, _)
\* The value of the digits in positions i..(j - 1).
DigitsValue(t, i, j, acc) ==
    IF i >= j THEN acc ELSE DigitsValue(t, i + 1, j, acc * 10 + DigitVal(t[i]))

\* A JSON number at position i: -? int (. digits)?, kept to one decimal.
ParseNumber(t, i) ==
    LET neg == CharAt(t, i) = "-"
        a == IF neg THEN i + 1 ELSE i
        b == DigitsEnd(t, a)
        hasFrac == CharAt(t, b) = "."
        e == IF hasFrac THEN DigitsEnd(t, b + 1) ELSE b
        whole == DigitsValue(t, a, b, 0)
        frac == IF hasFrac /\ e > b + 1 THEN DigitVal(t[b + 1]) ELSE 0
    IN IF b = a \/ (b > a + 1 /\ t[a] = "0") \/ (hasFrac /\ e = b + 1)
       THEN ParseFail
       ELSE Parsed(JNum((IF neg THEN -1 ELSE 1) * (whole * 10 + frac)), e)

RECURSIVE ParseValue(_, _)
RECURSIVE ParseMembers(_, _, _)
RECURSIVE ParseElements(_, _, _)

\* The members of an object; i is at the key of the next member.
ParseMembers(t, i, obj) ==
    IF CharAt(t, i) # "\"" THEN ParseFail
    ELSE LET key == StringBody(t, i + 1, "")
             colon == SkipSpace(t, key.next)
             val == ParseValue(t, SkipSpace(t, colon + 1))
             after == SkipSpace(t, val.next)
         IN IF ~key.ok \/ CharAt(t, colon) # ":" THEN ParseFail
            ELSE IF ~val.ok THEN ParseFail
            ELSE IF CharAt(t, after) = "}" THEN Parsed(SetKey(obj, key.v.s, val.v), after + 1)
            ELSE IF CharAt(t, after) = ","
            THEN ParseMembers(t, SkipSpace(t, after + 1), SetKey(obj, key.v.s, val.v))
            ELSE ParseFail

\* The elements of an array; i is at the next element.
ParseElements(t, i, arr) ==
    LET val == ParseValue(t, i)
        after == SkipSpace(t, val.next)
    IN IF ~val.ok THEN ParseFail
       ELSE IF CharAt(t, after) = "]" THEN Parsed([arr EXCEPT !.c = Append(arr.c, val.v)], after + 1)
       ELSE IF CharAt(t, after) = ","
       THEN ParseElements(t, SkipSpace(t, after + 1), [arr EXCEPT !.c = Append(arr.c, val.v)])
       ELSE ParseFail

\* One JSON value that starts at position i.
ParseValue(t, i) ==
    CASE CharAt(t, i) = "{" ->
            IF CharAt(t, SkipSpace(t, i + 1)) = "}"
            THEN Parsed(JObj(<<>>, <<>>, "own"), SkipSpace(t, i + 1) + 1)
            ELSE ParseMembers(t, SkipSpace(t, i + 1), JObj(<<>>, <<>>, "own"))
      [] CharAt(t, i) = "[" ->
            IF CharAt(t, SkipSpace(t, i + 1)) = "]"
            THEN Parsed(JArr(<<>>, "own"), SkipSpace(t, i + 1) + 1)
            ELSE ParseElements(t, SkipSpace(t, i + 1), JArr(<<>>, "own"))
      [] CharAt(t, i) = "\"" -> StringBody(t, i + 1, "")
      [] MatchAt(t, i, <<"t", "r", "u", "e">>) -> Parsed(JTrue, i + 4)
      [] MatchAt(t, i, <<"f", "a", "l", "s", "e">>) -> Parsed(JFalse, i + 5)
      [] MatchAt(t, i, <<"n", "u", "l", "l">>) -> Parsed(JNull, i + 4)
      [] CharAt(t, i) = "-" \/ IsDigit(CharAt(t, i)) -> ParseNumber(t, i)
      [] OTHER -> ParseFail

\* JSON.parse(text): one value with nothing but white space around it; ok is
\* FALSE where JSON.parse throws.
JsonParse(t) ==
    LET r == ParseValue(t, SkipSpace(t, 1))
    IN IF r.ok /\ SkipSpace(t, r.next) = Len(t) + 1 THEN r ELSE ParseFail

RECURSIVE StripTrailingCommas(_, _)
\* Fix 1: replace(/,(\s*[}\]])/g, '$1')
StripTrailingCommas(t, i) ==
    IF i > Len(t) THEN <<>>
    ELSE IF t[i] = "," /\ CharAt(t, SkipSpace(t, i + 1)) \in {"}", "]"}
    THEN SubSeq(t, i + 1, SkipSpace(t, i + 1)) \o StripTrailingCommas(t, SkipSpace(t, i + 1) + 1)
    ELSE <<t[i]>> \o StripTrailingCommas(t, i + 1)

\* Fix 2: replace(/'/g, '"')
ReplaceSingleQuotes(t) == [i \in 1..Len(t) |-> IF t[i] = "'" THEN "\"" ELSE t[i]]

RECURSIVE IdentEnd(_, _)
\* The position after the run of [a-zA-Z0-9_] that starts at i.
IdentEnd(t, i) == IF IsWordChar(CharAt(t, i)) THEN IdentEnd(t, i + 1) ELSE i

RECURSIVE QuoteBareKeys(_, _)
\* Fix 3: replace(/(\{|\,)\s*([a-zA-Z_][a-zA-Z0-9_]*)\s*:/g, '$1"$2":')
QuoteBareKeys(t, i) ==
    IF i > Len(t) THEN <<>>
    ELSE LET a == SkipSpace(t, i + 1)
             b == IdentEnd(t, a)
             colon == SkipSpace(t, b)
         IN IF t[i] \in {"{", ","} /\ IsIdentStart(CharAt(t, a)) /\ CharAt(t, colon) = ":"
            THEN <<t[i], "\"">> \o SubSeq(t, a, b - 1) \o <<"\"", ":">>
                 \o QuoteBareKeys(t, colon + 1)
            ELSE <<t[i]>> \o QuoteBareKeys(t, i + 1)

RECURSIVE LineEnd(_, _)
\* The position of the next line feed at or after i, or the end of the text.
LineEnd(t, i) == IF i > Len(t) \/ t[i] = "\n" THEN i ELSE LineEnd(t, i + 1)

RECURSIVE StripLineComments(_, _)
\* Fix 4a: replace(/\/\/[^\n]*/g, '')
StripLineComments(t, i) ==
    IF i > Len(t) THEN <<>>
    ELSE IF MatchAt(t, i, <<"/", "/">>) THEN StripLineComments(t, LineEnd(t, i + 2))
    ELSE <<t[i]>> \o StripLineComments(t, i + 1)

RECURSIVE BlockEnd(_, _)
\* The position of the next */ at or after i, or 0.
BlockEnd(t, i) ==
    IF i > Len(t) THEN 0
    ELSE IF MatchAt(t, i, <<"*", "/">>) THEN i ELSE BlockEnd(t, i + 1)

RECURSIVE StripBlockComments(_, _)
\* Fix 4b: replace(/\/\*[\s\S]*?\*\//g, '')
StripBlockComments(t, i) ==
    IF i > Len(t) THEN <<>>
    ELSE IF MatchAt(t, i, <<"/", "*">>) /\ BlockEnd(t, i + 2) > 0
    THEN StripBlockComments(t, BlockEnd(t, i + 2) + 2)
    ELSE <<t[i]>> \o StripBlockComments(t, i + 1)

RECURSIVE ReplaceBareToken(_, _, _)
\* Fix 5: replace(/:\s*undefined\b/g, ': null'), and the same for NaN.
ReplaceBareToken(t, word, i) ==
    IF i > Len(t) THEN <<>>
    ELSE LET a == SkipSpace(t, i + 1)
         IN IF t[i] = ":" /\ MatchAt(t, a, word) /\ ~IsWordChar(CharAt(t, a + Len(word)))
            THEN <<":", " ", "n", "u", "l", "l">> \o ReplaceBareToken(t, word, a + Len(word))
            ELSE <<t[i]>> \o ReplaceBareToken(t, word, i + 1)

\* The rewrites with the comments removed first.
RewriteTextCommentsFirst(t) ==
    LET f4a == StripLineComments(t, 1)
        f4b == StripBlockComments(f4a, 1)
        f1 == StripTrailingCommas(f4b, 1)
        f2 == ReplaceSingleQuotes(f1)
        f3 == QuoteBareKeys(f2, 1)
        f5a == ReplaceBareToken(f3, <<"u", "n", "d", "e", "f", "i", "n", "e", "d">>, 1)
    IN ReplaceBareToken(f5a, <<"N", "a", "N">>, 1)

\* The rewrites, once and in the code's order.
RewriteText(t) ==
    LET f1 == StripTrailingCommas(t, 1)
        f2 == ReplaceSingleQuotes(f1)
        f3 == QuoteBareKeys(f2, 1)
        f4a == StripLineComments(f3, 1)
        f4b == StripBlockComments(f4a, 1)
        f5a == ReplaceBareToken(f4b, <<"u", "n", "d", "e", "f", "i", "n", "e", "d">>, 1)
    IN ReplaceBareToken(f5a, <<"N", "a", "N">>, 1)

\* A text recovery that gives up after the strict parse.
TryParseJsonStrictOnly(text) ==
    IF JsonParse(text).ok
    THEN [ok |-> TRUE, parsed |-> JsonParse(text).v, errors |-> <<>>]
    ELSE [ok |-> FALSE, parsed |-> Undefined,
          errors |-> <<"Standard JSON parse failed, attempting repairs...",
                       "Could not repair JSON syntax">>]

\* tryParseJson: parsed is the value (ok says whether there is one), errors
\* the diagnostics.
tryParseJson(text) ==
    IF JsonParse(text).ok
    THEN [ok |-> TRUE, parsed |-> JsonParse(text).v, errors |-> <<>>]
    ELSE IF JsonParse(RewriteText(text)).ok
    THEN [ok |-> TRUE, parsed |-> JsonParse(RewriteText(text)).v,
          errors |-> <<"Standard JSON parse failed, attempting repairs...",
                       "JSON repaired successfully with syntax fixes">>]
    ELSE [ok |-> FALSE, parsed |-> Undefined,
          errors |-> <<"Standard JSON parse failed, attempting repairs...",
                       "Could not repair JSON syntax">>]

(***************************************************************************)
(* The arguments of a call.                                                *)
(***************************************************************************)
\* The object keys the model's values and schemas use.
Keys == <<"id", "data", "active", "extra">>

\* Scalars: a numeric string, a non-numeric string, a number, a boolean, null.
Leaves == {JStr("5"), JStr("abc"), JNum(50), JTrue, JNull}

\* Bounds of the generated input values: the nodes of a value, the elements
\* of one array.
MaxNodes == 3
MaxLen == 2

RECURSIVE ValuesOfSize(_)
RECURSIVE ChildSeqs(_, _)
\* Every sequence of count values with total nodes in all.
ChildSeqs(total, count) ==
    IF count = 0 THEN (IF total = 0 THEN {<<>>} ELSE {})
    ELSE UNION {{<<v>> \o rest : v \in ValuesOfSize(m), rest \in ChildSeqs(total - m, count - 1)} :
                   m \in 1..(total - count + 1)}

\* The key lists of an input object: count keys, in the order of Keys.
KeySeqs(count) ==
    {ks \in [1..count -> {Keys[i] : i \in 1..Len(Keys)}] :
        \A i \in 1..(count - 1) : IndexOf(Keys, ks[i]) < IndexOf(Keys, ks[i + 1])}

Min(a, b) == IF a < b THEN a ELSE b

\* Every JSON value of exactly size nodes, as the caller holds it.
ValuesOfSize(size) ==
    IF size = 1 THEN Leaves \cup {JObj(<<>>, <<>>, "caller"), JArr(<<>>, "caller")}
    ELSE UNION {{JObj(ks, cs, "caller") : ks \in KeySeqs(count), cs \in ChildSeqs(size - 1, count)} :
                   count \in 1..Min(size - 1, Len(Keys))}
         \cup
         UNION {{JArr(cs, "caller") : cs \in ChildSeqs(size - 1, count)} :
                   count \in 1..Min(size - 1, MaxLen)}

JsonValues == UNION {ValuesOfSize(size) : size \in 1..MaxNodes}

\* Schema nodes of the model, built as the tests and the README build them.
OfType(t) == [EmptySchema EXCEPT !.type = <<t>>]
OfTypes(ts) == [EmptySchema EXCEPT !.type = ts, !.typeIsList = TRUE]
WithDefault(schema, v) == [schema EXCEPT !.default = <<WithOwner(v, "schema")>>]
ObjectOf(names, schemas, req, addl) ==
    [EmptySchema EXCEPT !.type = <<"object">>, !.hasProps = TRUE, !.propNames = names,
                        !.propSchemas = schemas, !.required = req, !.addl = addl]
ArrayOf(itemSchema) == [EmptySchema EXCEPT !.type = <<"array">>, !.items = <<itemSchema>>]

\* repair_json's simpleSchema of the unit tests (name, age, active).
SimpleSchema ==
    ObjectOf(<<"id", "data", "active">>,
             <<OfType("string"), OfType("integer"), WithDefault(OfType("boolean"), JTrue)>>,
             <<"id">>, "false")
\* strictSchema: two required strings, no defaults.
StrictSchema ==
    ObjectOf(<<"id", "data">>, <<OfType("string"), OfType("string")>>, <<"id", "data">>, "absent")
\* A required object property with its own required, defaulted and closed shape.
NestedSchema ==
    ObjectOf(<<"data", "id">>,
             <<ObjectOf(<<"id", "active">>,
                        <<OfType("integer"), WithDefault(OfType("boolean"), JTrue)>>,
                        <<"id">>, "false"),
               OfType("string")>>,
             <<"data", "id">>, "absent")
\* arraySchema: an array of objects under a property.
ArraySchema ==
    ObjectOf(<<"data">>,
             <<ArrayOf(ObjectOf(<<"id">>, <<OfType("integer")>>, <<>>, "absent"))>>,
             <<"data">>, "absent")
RootArraySchema == ArrayOf(OfType("integer"))
\* items and properties without a `type` beside them.
UntypedItemsSchema ==
    [EmptySchema EXCEPT !.items =
        <<[EmptySchema EXCEPT !.hasProps = TRUE, !.propNames = <<"active">>,
                              !.propSchemas = <<WithDefault(EmptySchema, JTrue)>>]>>]
\* patternProperties over a closed object.
PatternSchema ==
    [EmptySchema EXCEPT !.type = <<"object">>, !.addl = "false",
                        !.patNames = <<"^d">>,
                        !.patSchemas = <<ObjectOf(<<"id">>, <<OfType("integer")>>, <<>>, "false")>>]
\* An object property whose default is an object with content.
ObjectDefaultSchema ==
    ObjectOf(<<"data">>,
             <<WithDefault(ObjectOf(<<"id">>, <<OfType("integer")>>, <<>>, "absent"),
                           JObj(<<"id">>, <<JNum(50)>>, "schema"))>>,
             <<>>, "absent")
\* An optional object written with default null.
NullDefaultSchema ==
    ObjectOf(<<"data">>, <<WithDefault(OfType("object"), JNull)>>, <<>>, "absent")
\* A closed object that declares no properties.
ClosedSchema == [EmptySchema EXCEPT !.type = <<"object">>, !.addl = "false"]
\* A closed schema that names neither a type nor properties.
UntypedClosedSchema == [EmptySchema EXCEPT !.addl = "false"]
\* A type name the schema check does not know.
BogusSchema == ObjectOf(<<"id">>, <<OfType("strng")>>, <<>>, "false")

SchemaNodes ==
    {SimpleSchema, StrictSchema, NestedSchema, ArraySchema, RootArraySchema,
     UntypedItemsSchema, PatternSchema, ObjectDefaultSchema, NullDefaultSchema,
     ClosedSchema, UntypedClosedSchema, BogusSchema,
     OfType("string"), OfType("boolean"), OfType("number"), OfType("null"),
     OfTypes(<<"integer", "string">>), OfTypes(<<"boolean", "null">>)}

\* input.schema: an object, or something that is no schema at all.
SchemaArgs ==
    {[shape |-> "object", node |-> n] : n \in SchemaNodes}
    \cup {[shape |-> sh, node |-> EmptySchema] : sh \in {"null", "string", "array"}}

\* A text input: the README's example: single quotes and a trailing comma.
TextReadme ==
    <<"{", "'", "i", "d", "'", ":", " ", "'", "a", "b", "c", "'", ",", " ", "'", "d", "a",
      "t", "a", "'", ":", " ", "'", "5", "'", ",", " ", "'", "e", "x", "t", "r", "a", "'",
      ":", " ", "'", "a", "b", "c", "'", ",", "}">>
\* A text input: a trailing comma.
TextTrailingComma ==
    <<"{", "\"", "i", "d", "\"", ":", " ", "\"", "a", "b", "c", "\"", ",", " ", "\"", "d",
      "a", "t", "a", "\"", ":", " ", "5", ",", "}">>
\* A text input: unquoted keys.
TextBareKeys ==
    <<"{", "i", "d", ":", " ", "\"", "a", "b", "c", "\"", ",", " ", "d", "a", "t", "a",
      ":", " ", "5", "}">>
\* A text input: nothing the rewrites can save.
TextGarbage ==
    <<"n", "o", "t", " ", "j", "s", "o", "n", " ", "{", "{", "{">>
\* A text input: well-formed JSON.
TextStrict ==
    <<"{", "\"", "i", "d", "\"", ":", " ", "\"", "a", "b", "c", "\"", ",", " ", "\"", "e",
      "x", "t", "r", "a", "\"", ":", " ", "[", "5", "]", "}">>
\* A text input: well-formed JSON that is a number.
TextNumber ==
    <<"5">>
\* A text input: a bare word.
TextWord ==
    <<"a", "b", "c">>
\* A text input: well-formed JSON that is a string.
TextQuoted ==
    <<"\"", "a", "b", "c", "\"">>
\* A text input: comments, NaN and undefined.
TextCommented ==
    <<"{", "\"", "d", "a", "t", "a", "\"", ":", " ", "N", "a", "N", ",", " ", "/", "/",
      " ", "n", "\n", " ", "\"", "i", "d", "\"", ":", " ", "u", "n", "d", "e", "f", "i",
      "n", "e", "d", " ", "/", "*", " ", "c", " ", "*", "/", "}">>

\* A text input: a comment between a trailing comma and the bracket.
TextCommaComment ==
    <<"[", "5", ",", " ", "/", "*", " ", "c", " ", "*", "/", "]">>

\* A text input: well-formed JSON with a key that contains the path delimiter.
TextSlashKey ==
    <<"{", "\"", "i", "d", "/", "x", "\"", ":", " ", "5", "}">>

\* A text input: well-formed JSON with an empty string and an upper-case TRUE.
TextEmptyString ==
    <<"{", "\"", "d", "a", "t", "a", "\"", ":", " ", "\"", "\"", ",", " ", "\"", "a", "c",
      "t", "i", "v", "e", "\"", ":", " ", "\"", "T", "R", "U", "E", "\"", "}">>

Texts == {TextReadme, TextTrailingComma, TextBareKeys, TextGarbage, TextStrict, TextNumber, TextWord, TextQuoted,
     TextCommented, TextCommaComment, TextSlashKey, TextEmptyString}

\* input.instance_or_text: a JSON value, a text, or nothing (the argument
\* left out).  A string is always taken as text (line 471), so a value that
\* is a string at its root arrives only as the text that spells it.
Inputs ==
    {[isText |-> FALSE, text |-> <<>>, value |-> v] :
        v \in {w \in JsonValues : w.k # "string"} \cup {Undefined}}
    \cup {[isText |-> TRUE, text |-> t, value |-> Undefined] : t \in Texts}

\* !input.schema || typeof input.schema !== 'object'
SchemaRejected(arg) == arg.shape \in {"null", "string"}

RECURSIVE KnownTypes(_)
\* The schema check compiles a schema whose type names it knows.
KnownTypes(schema) ==
    /\ \A i \in 1..Len(schema.type) : schema.type[i] \in JsonTypes
    /\ \A i \in 1..Len(schema.propSchemas) : KnownTypes(schema.propSchemas[i])
    /\ \A i \in 1..Len(schema.patSchemas) : KnownTypes(schema.patSchemas[i])
    /\ \A i \in 1..Len(schema.items) : KnownTypes(schema.items[i])

\* ajv.compile(schema) returns; it throws for an array and for an unknown type.
AjvCompiles(arg) == arg.shape = "object" /\ KnownTypes(arg.node)

(***************************************************************************)
(* Response envelopes.                                                     *)
(***************************************************************************)
NoResult ==
    [ok |-> FALSE, hasData |-> FALSE, hasError |-> FALSE, code |-> "none", message |-> <<>>,
     repaired |-> Undefined, changes |-> <<>>, parseErrors |-> <<>>, valid |-> FALSE,
     errors |-> {}, explanations |-> <<>>, warnings |-> <<>>]
\* { ok: false, error: { code, message, details }, meta }.  A message is the
\* sequence of the pieces its template joins.
createErrorResponse(code, message) ==
    [NoResult EXCEPT !.hasError = TRUE, !.code = code, !.message = message]
\* { ok: true, data, meta }
createSuccessResponse(data) ==
    [NoResult EXCEPT !.ok = TRUE, !.hasData = TRUE, !.code = "", !.repaired = data.repaired,
                     !.changes = data.changes, !.parseErrors = data.parseErrors,
                     !.valid = data.valid, !.errors = data.errors,
                     !.explanations = data.explanations,
                     !.warnings = data.warnings]
NoData ==
    [repaired |-> Undefined, changes |-> <<>>, parseErrors |-> <<>>, valid |-> FALSE,
     errors |-> {}, explanations |-> <<>>, warnings |-> <<>>]

\* The messages of the error responses.
SchemaMustBeObject == <<"Schema must be a valid JSON Schema object">>
InvalidJsonSchema == <<"Invalid JSON Schema: ", "schema is invalid">>
CouldNotParse == <<"Could not parse or repair JSON string">>
RepairFailed == <<"Repair failed: ", "\"undefined\" is not valid JSON">>

\* validateJson handing Ajv's instancePath on as it is.
ValidateJsonRawPaths(arg, instance) ==
    IF SchemaRejected(arg) THEN createErrorResponse("INVALID_INPUT", SchemaMustBeObject)
    ELSE IF ~AjvCompiles(arg) THEN createErrorResponse("INVALID_INPUT", InvalidJsonSchema)
    ELSE LET errs == AjvCheck(instance, arg.node, "", FALSE).errs
         IN createSuccessResponse([NoData EXCEPT !.valid = (errs = {}), !.errors = errs])

\* validateJson: the validate entry point, on its own Ajv (no useDefaults).
validateJson(arg, instance) ==
    IF SchemaRejected(arg) THEN createErrorResponse("INVALID_INPUT", SchemaMustBeObject)
    ELSE IF ~AjvCompiles(arg) THEN createErrorResponse("INVALID_INPUT", InvalidJsonSchema)
    ELSE LET errs == AjvCheck(instance, arg.node, "", FALSE).errs
         IN createSuccessResponse(
                [NoData EXCEPT !.valid = (errs = {}),
                               !.errors = {[e EXCEPT !.path = IF e.path = "" THEN "/" ELSE e.path] :
                                              e \in errs}])

(***************************************************************************)
(* explainValidation and the Diagnostic Translator.  A text is the         *)
(* sequence of the pieces its template joins.                              *)
(***************************************************************************)
RECURSIVE JoinText(_, _, _)
\* Array.prototype.join(sep) of texts.
JoinText(texts, sep, i) ==
    IF i > Len(texts) THEN ""
    ELSE texts[i] \o (IF i < Len(texts) THEN sep ELSE "") \o JoinText(texts, sep, i + 1)

RECURSIVE JsonStringify(_)
\* JSON.stringify(v), as a template prints it (undefined prints "undefined").
JsonStringify(v) ==
    CASE v.k = "string" -> "\"" \o v.s \o "\""
      [] v.k = "array" ->
            "[" \o JoinText([i \in 1..Len(v.c) |-> JsonStringify(v.c[i])], ",", 1) \o "]"
      [] v.k = "object" ->
            "{" \o JoinText([i \in 1..Len(v.c) |->
                               "\"" \o v.keys[i] \o "\":" \o JsonStringify(v.c[i])], ",", 1) \o "}"
      [] OTHER -> StringOf(v)

\* A value that a condition takes as true.
Truthy(v) ==
    CASE v.k \in {"undefined", "null"} -> FALSE
      [] v.k = "boolean" -> v.n = 1
      [] v.k = "number" -> v.n # 0
      [] v.k = "string" -> v.s # ""
      [] OTHER -> TRUE

\* Reading a property of params throws when params is undefined or null.
ParamsUnreadable(params) == params.k \in {"undefined", "null"}

\* (params.allowedValues)?.map(...): .map is called on whatever is there, and
\* only an array has it.
AllowedValuesThrows(params) ==
    GetKey(params, "allowedValues").k \notin {"undefined", "null", "array"}

\* (params.allowedValues)?.map(v => JSON.stringify(v)).join(', ') || 'specified values'
AllowedValuesText(params) ==
    LET av == GetKey(params, "allowedValues")
        joined == IF av.k = "array"
                  THEN JoinText([i \in 1..Len(av.c) |-> JsonStringify(av.c[i])], ", ", 1)
                  ELSE ""
    IN IF joined = "" THEN "specified values" ELSE joined

\* (params.deps)?.join(', '): only an array has .join.
DependenciesThrows(params) ==
    GetKey(params, "deps").k \notin {"undefined", "null", "array"}

\* (params.deps)?.join(', ') || params.missingProperty
DependenciesText(params) ==
    LET deps == GetKey(params, "deps")
        joined == IF deps.k = "array"
                  THEN JoinText([i \in 1..Len(deps.c) |->
                                    IF deps.c[i].k \in {"null", "undefined"} THEN ""
                                    ELSE StringOf(deps.c[i])], ", ", 1)
                  ELSE ""
    IN IF joined = "" THEN StringOf(GetKey(params, "missingProperty")) ELSE joined

\* The keywords whose case never reads params.
ParamFreeKeywords ==
    {"propertyNames", "if", "then", "else", "anyOf", "allOf", "not"}
\* The keywords of the table.
TableKeywords ==
    {"type", "required", "additionalProperties", "enum", "const", "minimum", "maximum",
     "exclusiveMinimum", "exclusiveMaximum", "minLength", "maxLength", "pattern", "format",
     "minItems", "maxItems", "uniqueItems", "minProperties", "maxProperties",
     "propertyNames", "dependencies", "dependentRequired", "if", "then", "else", "oneOf",
     "anyOf", "allOf", "not", "multipleOf"}

\* const location = path === '/' || path === '' ? 'root' : `"${path}"`
LocationOf(path) == IF path = "/" \/ path = "" THEN "root" ELSE "\"" \o path \o "\""

Explained(explanation, suggestion) ==
    [threw |-> FALSE, explanation |-> explanation, suggestion |-> suggestion]
ExplainThrew == [threw |-> TRUE, explanation |-> <<>>, suggestion |-> <<>>]

\* getKeywordExplanation: the explanation and the suggestion for a keyword,
\* or the TypeError the case raises.
getKeywordExplanation(keyword, params, path) ==
    LET location == LocationOf(path)
    IN IF keyword \in TableKeywords \ ParamFreeKeywords /\ ParamsUnreadable(params)
       THEN ExplainThrew
       ELSE IF keyword = "enum" /\ AllowedValuesThrows(params)
       THEN ExplainThrew
       ELSE IF keyword \in {"dependencies", "dependentRequired"} /\ DependenciesThrows(params)
       THEN ExplainThrew
       ELSE
            CASE keyword = "type" ->
                   Explained(<<"The value at ", location, " has the wrong type. Expected \"", StringOf(GetKey(params, "type")), "\" but got a different type.">>,
                             <<"Change the value at ", location, " to be of type \"", StringOf(GetKey(params, "type")), "\".">>)
              [] keyword = "required" ->
                   Explained(<<"The required property \"", StringOf(GetKey(params, "missingProperty")), "\" is missing at ", location, ".">>,
                             <<"Add the missing property \"", StringOf(GetKey(params, "missingProperty")), "\" with an appropriate value.">>)
              [] keyword = "additionalProperties" ->
                   Explained(<<"The property \"", StringOf(GetKey(params, "additionalProperty")), "\" at ", location, " is not allowed by the schema.">>,
                             <<"Remove the unexpected property \"", StringOf(GetKey(params, "additionalProperty")), "\" or update the schema to allow it.">>)
              [] keyword = "enum" ->
                   Explained(<<"The value at ", location, " must be one of the allowed enum values: ", AllowedValuesText(params), ".">>,
                             <<"Change the value at ", location, " to one of: ", AllowedValuesText(params), ".">>)
              [] keyword = "const" ->
                   Explained(<<"The value at ", location, " must be exactly ", JsonStringify(GetKey(params, "allowedValue")), ".">>,
                             <<"Set the value at ", location, " to ", JsonStringify(GetKey(params, "allowedValue")), ".">>)
              [] keyword = "minimum" ->
                   Explained(<<"The value at ", location, " is less than the minimum allowed value of ", StringOf(GetKey(params, "limit")), ".">>,
                             <<"Increase", " the value at ", location, " to be at least ", StringOf(GetKey(params, "limit")), ".">>)
              [] keyword = "maximum" ->
                   Explained(<<"The value at ", location, " exceeds the maximum allowed value of ", StringOf(GetKey(params, "limit")), ".">>,
                             <<"Decrease", " the value at ", location, " to be at most ", StringOf(GetKey(params, "limit")), ".">>)
              [] keyword = "exclusiveMinimum" ->
                   Explained(<<"The value at ", location, " must be greater than ", StringOf(GetKey(params, "limit")), " (exclusive).">>,
                             <<"Increase", " the value at ", location, " to be strictly greater than ", StringOf(GetKey(params, "limit")), ".">>)
              [] keyword = "exclusiveMaximum" ->
                   Explained(<<"The value at ", location, " must be less than ", StringOf(GetKey(params, "limit")), " (exclusive).">>,
                             <<"Decrease", " the value at ", location, " to be strictly less than ", StringOf(GetKey(params, "limit")), ".">>)
              [] keyword = "minLength" ->
                   Explained(<<"The string at ", location, " is too short. Minimum length is ", StringOf(GetKey(params, "limit")), " characters.">>,
                             <<"Add more characters to the string at ", location, " to reach at least ", StringOf(GetKey(params, "limit")), " characters.">>)
              [] keyword = "maxLength" ->
                   Explained(<<"The string at ", location, " is too long. Maximum length is ", StringOf(GetKey(params, "limit")), " characters.">>,
                             <<"Shorten the string at ", location, " to at most ", StringOf(GetKey(params, "limit")), " characters.">>)
              [] keyword = "pattern" ->
                   Explained(<<"The string at ", location, " does not match the required pattern: ", StringOf(GetKey(params, "pattern")), ".">>,
                             <<"Modify the string at ", location, " to match the pattern \"", StringOf(GetKey(params, "pattern")), "\".">>)
              [] keyword = "format" ->
                   Explained(<<"The string at ", location, " does not match the required format \"", StringOf(GetKey(params, "format")), "\".">>,
                             <<"Correct the string at ", location, " to be a valid \"", StringOf(GetKey(params, "format")), "\" format.">>)
              [] keyword = "minItems" ->
                   Explained(<<"The array at ", location, " has too few items. Minimum is ", StringOf(GetKey(params, "limit")), " items.">>,
                             <<"Add more items to the array at ", location, " to have at least ", StringOf(GetKey(params, "limit")), " items.">>)
              [] keyword = "maxItems" ->
                   Explained(<<"The array at ", location, " has too many items. Maximum is ", StringOf(GetKey(params, "limit")), " items.">>,
                             <<"Remove items from the array at ", location, " to have at most ", StringOf(GetKey(params, "limit")), " items.">>)
              [] keyword = "uniqueItems" ->
                   Explained(<<"The array at ", location, " contains duplicate items at positions ", StringOf(GetKey(params, "i")), " and ", StringOf(GetKey(params, "j")), ".">>,
                             <<"Remove duplicate items from the array at ", location, ".">>)
              [] keyword = "minProperties" ->
                   Explained(<<"The object at ", location, " has too few properties. Minimum is ", StringOf(GetKey(params, "limit")), " properties.">>,
                             <<"Add more properties to the object at ", location, " to have at least ", StringOf(GetKey(params, "limit")), " properties.">>)
              [] keyword = "maxProperties" ->
                   Explained(<<"The object at ", location, " has too many properties. Maximum is ", StringOf(GetKey(params, "limit")), " properties.">>,
                             <<"Remove properties from the object at ", location, " to have at most ", StringOf(GetKey(params, "limit")), " properties.">>)
              [] keyword = "propertyNames" ->
                   Explained(<<"A property name at ", location, " does not match the required pattern.">>,
                             <<"Rename the invalid property to match the schema's property name requirements.">>)
              [] (keyword = "dependencies" \/ keyword = "dependentRequired") ->
                   Explained(<<"The property at ", location, " requires additional properties: ", DependenciesText(params), ".">>,
                             <<"Add the required dependent properties when using this field.">>)
              [] (keyword = "if" \/ keyword = "then" \/ keyword = "else") ->
                   Explained(<<"The value at ", location, " does not satisfy the conditional schema (", keyword, " clause).">>,
                             <<"Modify the value at ", location, " to satisfy the conditional requirements.">>)
              [] keyword = "oneOf" ->
                   Explained(<<"The value at ", location, " must match exactly one of the allowed schemas, but it ", (IF Truthy(GetKey(params, "passingSchemas")) THEN "matches multiple" ELSE "matches none"), ".">>,
                             <<"Modify the value at ", location, " to match exactly one of the allowed alternatives.">>)
              [] keyword = "anyOf" ->
                   Explained(<<"The value at ", location, " must match at least one of the allowed schemas, but it matches none.">>,
                             <<"Modify the value at ", location, " to match at least one of the allowed alternatives.">>)
              [] keyword = "allOf" ->
                   Explained(<<"The value at ", location, " must match all of the required schemas, but it fails to match some.">>,
                             <<"Modify the value at ", location, " to satisfy all the required conditions.">>)
              [] keyword = "not" ->
                   Explained(<<"The value at ", location, " matches a schema that it should NOT match.">>,
                             <<"Modify the value at ", location, " so it does not match the forbidden schema.">>)
              [] keyword = "multipleOf" ->
                   Explained(<<"The number at ", location, " must be a multiple of ", StringOf(GetKey(params, "multipleOf")), ".">>,
                             <<"Change the value at ", location, " to be a multiple of ", StringOf(GetKey(params, "multipleOf")), ".">>)
              [] OTHER ->
                   Explained(<<"Validation failed at ", location, " due to \"", keyword,
                               "\" constraint.">>,
                             <<"Review and fix the value at ", location, " to satisfy the \"",
                               keyword, "\" constraint.">>)

\* One element of input.errors: shape says what kind of value it is, ajv
\* whether it has an instancePath (path then holds it), message holds the
\* message if there is one, params is its params or undefined.
ErrorItem(shape, ajv, path, keyword, message, params) ==
    [shape |-> shape, ajv |-> ajv, path |-> path, keyword |-> keyword, message |-> message,
     params |-> params]

\* normalizeError: `'instancePath' in error` throws for a value that is no
\* object.
normalizeError(error) ==
    IF error.shape # "object"
    THEN [threw |-> TRUE, path |-> "", keyword |-> "", message |-> <<>>, params |-> Undefined]
    ELSE IF error.ajv
    THEN [threw |-> FALSE,
          path |-> IF error.path = "" THEN "/" ELSE error.path,
          keyword |-> error.keyword,
          message |-> IF error.message = <<>> \/ error.message = <<"">>
                      THEN <<"Validation failed">> ELSE error.message,
          params |-> error.params]
    ELSE [threw |-> FALSE, path |-> error.path, keyword |-> error.keyword,
          message |-> error.message, params |-> error.params]

\* The callback of input.errors.map.
ExplainOne(error) ==
    LET normalized == normalizeError(error)
        told == getKeywordExplanation(normalized.keyword, normalized.params, normalized.path)
    IN [threw |-> normalized.threw \/ told.threw,
        path |-> normalized.path, error |-> normalized.message,
        explanation |-> told.explanation, suggestion |-> told.suggestion]

ErrorsMustBeArray == <<"Errors must be an array of validation error objects">>
FailedToExplain == <<"Failed to explain errors: ", "TypeError">>

\* explainValidation without its outer catch: a TypeError of the callback
\* leaves the caller without a response.
ExplainValidationUncaught(arg) ==
    IF arg.shape # "array" THEN createErrorResponse("INVALID_INPUT", ErrorsMustBeArray)
    ELSE IF \E i \in 1..Len(arg.items) : ExplainOne(arg.items[i]).threw
    THEN NoResult
    ELSE createSuccessResponse(
             [NoData EXCEPT !.explanations =
                 [i \in 1..Len(arg.items) |->
                     [path |-> ExplainOne(arg.items[i]).path,
                      error |-> ExplainOne(arg.items[i]).error,
                      explanation |-> ExplainOne(arg.items[i]).explanation,
                      suggestion |-> ExplainOne(arg.items[i]).suggestion]]])

\* explainValidation: arg.shape says what input.errors is, arg.items holds
\* its elements when it is an array.
explainValidation(arg) ==
    IF arg.shape # "array" THEN createErrorResponse("INVALID_INPUT", ErrorsMustBeArray)
    ELSE IF \E i \in 1..Len(arg.items) : ExplainOne(arg.items[i]).threw
    THEN createErrorResponse("INTERNAL_ERROR", FailedToExplain)
    ELSE createSuccessResponse(
             [NoData EXCEPT !.explanations =
                 [i \in 1..Len(arg.items) |->
                     [path |-> ExplainOne(arg.items[i]).path,
                      error |-> ExplainOne(arg.items[i]).error,
                      explanation |-> ExplainOne(arg.items[i]).explanation,
                      suggestion |-> ExplainOne(arg.items[i]).suggestion]]])

(***************************************************************************)
(* repairJson, one step per stage of the call.                             *)
(***************************************************************************)
VARIABLES schemaArg, input, pc, instance, changes, parseErrors, ran, result, call, reply,
          sessions, transports, requests, shutdown
vars == <<schemaArg, input, pc, instance, changes, parseErrors, ran, result, call, reply,
          sessions, transports, requests, shutdown>>

\* The HTTP transport's sessions: at most MaxSessions ids are ever drawn, and
\* at most MaxRequests requests arrive on /mcp.
MaxSessions == 2
MaxRequests == 2
SessionIds == 1..MaxSessions
RequestSlots == 1..MaxRequests

\* A request that has not arrived; no shutdown signal yet.
NoRequest == [pc |-> "idle", header |-> 0, transport |-> 0, made |-> {}]
NoShutdown == [pc |-> "idle", current |-> 0, seen |-> {}, keepAlive |-> FALSE]

\* const sessions = new Map(): no session, no transport, no request.
HttpIdle ==
    /\ sessions = <<>>
    /\ transports = [id \in SessionIds |-> "none"]
    /\ requests = [r \in RequestSlots |-> NoRequest]
    /\ shutdown = NoShutdown

\* A tools/call request as a transport hands it over: the tool's name,
\* whether params.arguments is there, and input.errors for explain.
ToolCall(transport, tool, given, errors) ==
    [transport |-> transport, tool |-> tool, given |-> given, errors |-> errors]
\* input.errors: shape says what kind of value it is, items holds the
\* elements of an array.
ErrorsArg(shape, items) == [shape |-> shape, items |-> items]
NoCall == ToolCall("none", "repair_json", TRUE, ErrorsArg("undefined", <<>>))
\* What the transport sends back: nothing yet, the envelope as text content,
\* or a JSON-RPC error; invoked holds the entry points that were called.
NoReply == [kind |-> "none", rpcCode |-> 0, rpcMessage |-> <<>>, invoked |-> {}]

\* The order in which repairJson runs its passes.
PassOrderCoerceFirst == <<"coerce", "prune", "default">>
PassOrder == <<"prune", "coerce", "default">>

\* The stage after the pass at position i of PassOrder.
After(pass) ==
    IF IndexOf(PassOrder, pass) < Len(PassOrder)
    THEN PassOrder[IndexOf(PassOrder, pass) + 1]
    ELSE "validate"

Init ==
    /\ schemaArg \in SchemaArgs
    /\ input \in Inputs
    /\ pc = "start"
    /\ instance = Undefined
    /\ changes = <<>>
    /\ parseErrors = <<>>
    /\ ran = <<>>
    /\ result = NoResult
    /\ call = NoCall
    /\ reply = NoReply
    /\ HttpIdle

\* Lines 462-481: the schema argument is checked, the input parsed or cloned.
Start ==
    /\ pc = "start"
    /\ IF SchemaRejected(schemaArg)
       THEN /\ result' = createErrorResponse("INVALID_INPUT", SchemaMustBeObject)
            /\ pc' = "done"
            /\ UNCHANGED <<instance, parseErrors>>
       ELSE IF input.isText
       THEN LET r == tryParseJson(input.text)
            IN /\ parseErrors' = r.errors
               /\ IF ~r.ok
                  THEN /\ result' = [createErrorResponse("PARSE_ERROR", CouldNotParse) EXCEPT
                                        !.parseErrors = r.errors]
                       /\ pc' = "done"
                       /\ UNCHANGED instance
                  ELSE /\ instance' = r.parsed
                       /\ pc' = PassOrder[1]
                       /\ UNCHANGED result
       ELSE IF input.value.k = "undefined"
       THEN \* JSON.parse(undefined) throws; the outer catch answers.
            /\ result' = createErrorResponse("INTERNAL_ERROR", RepairFailed)
            /\ pc' = "done"
            /\ UNCHANGED <<instance, parseErrors>>
       ELSE /\ instance' = deepClone(input.value)
            /\ pc' = PassOrder[1]
            /\ UNCHANGED <<result, parseErrors>>
    /\ UNCHANGED <<schemaArg, input, changes, ran, call, reply, sessions, transports, requests, shutdown>>

\* Line 484: removeAdditionalProperties(instance, input.schema, '', changes)
Prune ==
    /\ pc = "prune"
    /\ LET r == removeAdditionalProperties(instance, schemaArg.node, "", changes)
       IN instance' = r.v /\ changes' = r.ch
    /\ ran' = Append(ran, "prune")
    /\ pc' = After("prune")
    /\ UNCHANGED <<schemaArg, input, parseErrors, result, call, reply, sessions, transports, requests, shutdown>>

\* Line 486: instance = applyTypeCoercion(instance, input.schema, '', changes)
Coerce ==
    /\ pc = "coerce"
    /\ LET r == applyTypeCoercion(instance, schemaArg.node, "", changes)
       IN instance' = r.v /\ changes' = r.ch
    /\ ran' = Append(ran, "coerce")
    /\ pc' = After("coerce")
    /\ UNCHANGED <<schemaArg, input, parseErrors, result, call, reply, sessions, transports, requests, shutdown>>

\* Line 488: instance = applyDefaults(instance, input.schema, '', changes)
Default ==
    /\ pc = "default"
    /\ LET r == applyDefaults(instance, schemaArg.node, "", changes)
       IN instance' = r.v /\ changes' = r.ch
    /\ ran' = Append(ran, "default")
    /\ pc' = After("default")
    /\ UNCHANGED <<schemaArg, input, parseErrors, result, call, reply, sessions, transports, requests, shutdown>>

\* A final step that refuses a value the schema still rejects.
FinalCheckStrict(arg, working, ledger, diagnostics) ==
    IF ~AjvCompiles(arg) \/ AjvCheck(working, arg.node, "", TRUE).errs # {}
    THEN [v |-> working, response |-> createErrorResponse("INVALID_INPUT", InvalidJsonSchema)]
    ELSE [v |-> working,
          response |-> createSuccessResponse(
              [NoData EXCEPT !.repaired = working, !.changes = ledger,
                             !.parseErrors = diagnostics])]

\* Lines 489-509: the schema is compiled and the working value checked with
\* it.  The check runs with useDefaults on the very value that is returned.
FinalCheck(arg, working, ledger, diagnostics) ==
    IF ~AjvCompiles(arg)
    THEN [v |-> working, response |-> createErrorResponse("INVALID_INPUT", InvalidJsonSchema)]
    ELSE LET r == AjvCheck(working, arg.node, "", TRUE)
         IN [v |-> r.v,
             response |-> createSuccessResponse(
                 [NoData EXCEPT
                     !.repaired = r.v, !.changes = ledger, !.parseErrors = diagnostics,
                     !.warnings = IF r.errs # {}
                                  THEN <<"Repaired JSON still has validation errors - some issues could not be automatically fixed">>
                                  ELSE <<>>])]

Finish ==
    /\ pc = "validate"
    /\ instance' = FinalCheck(schemaArg, instance, changes, parseErrors).v
    /\ result' = FinalCheck(schemaArg, instance, changes, parseErrors).response
    /\ pc' = "done"
    /\ UNCHANGED <<schemaArg, input, changes, parseErrors, ran, call, reply, sessions, transports, requests, shutdown>>

Next == Start \/ Prune \/ Coerce \/ Default \/ Finish

Spec == Init /\ [][Next]_vars

(***************************************************************************)
(* The tool-call handlers of the transports.                               *)
(***************************************************************************)
\* repairJson as one call: lines 460-515.
repairJson(arg, inp) ==
    IF SchemaRejected(arg) THEN createErrorResponse("INVALID_INPUT", SchemaMustBeObject)
    ELSE IF inp.isText /\ ~tryParseJson(inp.text).ok
    THEN [createErrorResponse("PARSE_ERROR", CouldNotParse) EXCEPT
             !.parseErrors = tryParseJson(inp.text).errors]
    ELSE IF ~inp.isText /\ inp.value.k = "undefined"
    THEN createErrorResponse("INTERNAL_ERROR", RepairFailed)
    ELSE LET parsed == IF inp.isText THEN tryParseJson(inp.text).parsed ELSE deepClone(inp.value)
             diagnostics == IF inp.isText THEN tryParseJson(inp.text).errors ELSE <<>>
             pruned == removeAdditionalProperties(parsed, arg.node, "", <<>>)
             coerced == applyTypeCoercion(pruned.v, arg.node, "", pruned.ch)
             defaulted == applyDefaults(coerced.v, arg.node, "", coerced.ch)
         IN FinalCheck(arg, defaulted.v, defaulted.ch, diagnostics).response

\* The messages of the outer catch when params.arguments is missing.
ValidationFailed == <<"Validation failed: ", "TypeError">>
RepairFailedNoInput == <<"Repair failed: ", "TypeError">>

\* The tools the server lists, and a name it does not list.
ToolNames == {"validate_json", "explain_validation", "repair_json"}
OtherToolNames == {"unknown_tool", ""}
\* stdio and streamable serve createServer()'s handler; http is the JSON-RPC
\* handler of the HTTP transport.
SdkTransports == {"stdio", "streamable"}
Transports == SdkTransports \cup {"http"}

MaxCallNodes == 2
MaxErrors == 2

\* The values a call carries as instance.
CallValues == UNION {ValuesOfSize(size) : size \in 1..MaxCallNodes} \cup {Undefined}

\* Elements of input.errors: what validate returns, what Ajv returns, and
\* what a caller can write by hand.
ErrorItems ==
    {ErrorItem("object", FALSE, "/data", "type", <<"must be integer">>,
               JObj(<<"type">>, <<JStr("integer")>>, "caller")),
     ErrorItem("object", FALSE, "/", "required", <<"must have required property 'id'">>,
               JObj(<<"missingProperty">>, <<JStr("id")>>, "caller")),
     ErrorItem("object", TRUE, "", "additionalProperties", <<>>,
               JObj(<<"additionalProperty">>, <<JStr("extra")>>, "caller")),
     ErrorItem("object", FALSE, "/data", "minimum", <<"must be >= 5">>,
               JObj(<<"limit">>, <<JNum(50)>>, "caller")),
     ErrorItem("object", FALSE, "/id", "enum", <<"must be equal to one of the allowed values">>,
               JObj(<<"allowedValues">>, <<JArr(<<JStr("abc"), JNum(50)>>, "caller")>>, "caller")),
     ErrorItem("object", FALSE, "/id", "enum", <<"must be equal to one of the allowed values">>,
               JObj(<<"allowedValues">>, <<JStr("abc")>>, "caller")),
     ErrorItem("object", FALSE, "", "enum", <<"">>, JObj(<<>>, <<>>, "caller")),
     ErrorItem("object", FALSE, "/data", "dependencies", <<"must have property id">>,
               JObj(<<"deps">>, <<JStr("id")>>, "caller")),
     ErrorItem("object", TRUE, "/data", "dependentRequired", <<"must have property id">>,
               JObj(<<"missingProperty">>, <<JStr("id")>>, "caller")),
     ErrorItem("object", TRUE, "/data", "oneOf", <<"must match exactly one schema">>,
               JObj(<<"passingSchemas">>, <<JNull>>, "caller")),
     ErrorItem("object", FALSE, "/", "custom", <<"custom rule">>, JObj(<<>>, <<>>, "caller")),
     ErrorItem("object", FALSE, "/id", "not", <<>>, Undefined),
     ErrorItem("object", FALSE, "/id", "type", <<"must be string">>, Undefined),
     ErrorItem("null", FALSE, "", "", <<>>, Undefined)}

RECURSIVE ErrorSeqs(_)
ErrorSeqs(count) ==
    IF count = 0 THEN {<<>>}
    ELSE {Append(items, e) : items \in ErrorSeqs(count - 1), e \in ErrorItems}

ErrorsArgs ==
    {ErrorsArg("array", items) : items \in UNION {ErrorSeqs(count) : count \in 0..MaxErrors}}
    \cup {ErrorsArg(sh, <<>>) : sh \in {"undefined", "null", "string", "object"}}

NoInput == [isText |-> FALSE, text |-> <<>>, value |-> Undefined]
NoSchema == [shape |-> "null", node |-> EmptySchema]

\* A request arrives: the tool named, and the arguments that tool reads.
ServerInit ==
    /\ pc = "request"
    /\ instance = Undefined
    /\ changes = <<>>
    /\ parseErrors = <<>>
    /\ ran = <<>>
    /\ result = NoResult
    /\ reply = NoReply
    /\ HttpIdle
    /\ \E transport \in Transports, tool \in ToolNames \cup OtherToolNames, given \in BOOLEAN :
          \/ /\ tool = "validate_json" /\ given
             /\ call = ToolCall(transport, tool, given, ErrorsArg("undefined", <<>>))
             /\ schemaArg \in SchemaArgs
             /\ input \in {[isText |-> FALSE, text |-> <<>>, value |-> v] : v \in CallValues}
          \/ /\ tool = "repair_json" /\ given
             /\ call = ToolCall(transport, tool, given, ErrorsArg("undefined", <<>>))
             /\ schemaArg \in SchemaArgs
             /\ input \in {[isText |-> FALSE, text |-> <<>>, value |-> v] :
                              v \in {w \in CallValues : w.k # "string"}}
                          \cup {[isText |-> TRUE, text |-> t, value |-> Undefined] : t \in Texts}
          \/ /\ tool = "explain_validation" /\ given
             /\ \E errors \in ErrorsArgs : call = ToolCall(transport, tool, given, errors)
             /\ schemaArg = NoSchema
             /\ input = NoInput
          \/ /\ tool \in OtherToolNames \/ ~given
             /\ call = ToolCall(transport, tool, given, ErrorsArg("undefined", <<>>))
             /\ schemaArg = NoSchema
             /\ input = NoInput

\* The reply that carries an envelope: content: [{type: 'text', text: JSON.stringify(result)}]
ContentReply(entry) == [NoReply EXCEPT !.kind = "content", !.invoked = {entry}]

\* case 'validate_json'
CallValidate ==
    /\ pc = "request"
    /\ call.tool = "validate_json"
    /\ result' = IF ~call.given THEN createErrorResponse("INTERNAL_ERROR", ValidationFailed)
                 ELSE validateJson(schemaArg, input.value)
    /\ reply' = ContentReply("validateJson")
    /\ pc' = "answered"
    /\ UNCHANGED <<schemaArg, input, instance, changes, parseErrors, ran, call, sessions, transports, requests, shutdown>>

\* case 'explain_validation'
CallExplain ==
    /\ pc = "request"
    /\ call.tool = "explain_validation"
    /\ result' = IF ~call.given THEN createErrorResponse("INTERNAL_ERROR", FailedToExplain)
                 ELSE explainValidation(call.errors)
    /\ reply' = ContentReply("explainValidation")
    /\ pc' = "answered"
    /\ UNCHANGED <<schemaArg, input, instance, changes, parseErrors, ran, call, sessions, transports, requests, shutdown>>

\* case 'repair_json'
CallRepair ==
    /\ pc = "request"
    /\ call.tool = "repair_json"
    /\ result' = IF ~call.given THEN createErrorResponse("INTERNAL_ERROR", RepairFailedNoInput)
                 ELSE repairJson(schemaArg, input)
    /\ reply' = ContentReply("repairJson")
    /\ pc' = "answered"
    /\ UNCHANGED <<schemaArg, input, instance, changes, parseErrors, ran, call, sessions, transports, requests, shutdown>>

\* default: createServer()'s handler answers with an envelope it builds
\* itself, the JSON-RPC handler with a JSON-RPC error.
CallUnknown ==
    /\ pc = "request"
    /\ call.tool \notin ToolNames
    /\ IF call.transport \in SdkTransports
       THEN /\ result' = createErrorResponse("INVALID_INPUT", <<"Unknown tool: ", call.tool>>)
            /\ reply' = [NoReply EXCEPT !.kind = "content"]
       ELSE /\ result' = result
            /\ reply' = [NoReply EXCEPT !.kind = "rpcError", !.rpcCode = -32601,
                                        !.rpcMessage = <<"Unknown tool: ", call.tool>>]
    /\ pc' = "answered"
    /\ UNCHANGED <<schemaArg, input, instance, changes, parseErrors, ran, call, sessions, transports, requests, shutdown>>

ServerNext == CallValidate \/ CallExplain \/ CallRepair \/ CallUnknown

ServerSpec == ServerInit /\ [][ServerNext]_vars

(***************************************************************************)
(* What the properties below speak of.                                     *)
(***************************************************************************)
\* The value the passes start from: the parsed text or the cloned instance.
Original == IF input.isText THEN tryParseJson(input.text).parsed ELSE input.value

\* The input can be turned into a value at all.
Parseable == IF input.isText THEN tryParseJson(input.text).ok ELSE input.value.k # "undefined"

Finished == pc = "done"
Repaired == Finished /\ result.ok

RECURSIVE SortedKeys(_, _)
\* The keys of an object in the order of Keys, then any other key.
SortedKeys(obj, i) ==
    IF i > Len(Keys) THEN SelectSeq(obj.keys, LAMBDA key : IndexOf(Keys, key) = 0)
    ELSE (IF HasKey(obj, Keys[i]) THEN <<Keys[i]>> ELSE <<>>) \o SortedKeys(obj, i + 1)

RECURSIVE Canon(_)
\* A value as JSON equality sees it: no owners, no key order.
Canon(v) ==
    IF v.k = "object"
    THEN LET ks == SortedKeys(v, 1)
         IN [v EXCEPT !.owner = "own", !.keys = ks,
                      !.c = [i \in 1..Len(ks) |-> Canon(GetKey(v, ks[i]))]]
    ELSE IF v.k = "array"
    THEN [v EXCEPT !.owner = "own", !.c = [i \in 1..Len(v.c) |-> Canon(v.c[i])]]
    ELSE v

SameJson(a, b) == Canon(a) = Canon(b)

\* The segment that leads to child i of a container.
Segment(v, i) == IF v.k = "object" THEN v.keys[i] ELSE IndexText(i)

RECURSIVE Locations(_)
\* Every location of a value, as the segments that lead to it.
Locations(v) ==
    {<<>>} \cup UNION {{<<Segment(v, i)>> \o rest : rest \in Locations(v.c[i])} :
                          i \in 1..Len(v.c)}

RECURSIVE ArrayIndex(_, _)
\* The position in arr that the segment names, or 0.
ArrayIndex(arr, seg) ==
    IF \E i \in 1..Len(arr.c) : IndexText(i) = seg
    THEN CHOOSE i \in 1..Len(arr.c) : IndexText(i) = seg
    ELSE 0

\* The child under one segment, or undefined.
Child(v, seg) ==
    CASE v.k = "object" -> GetKey(v, seg)
      [] v.k = "array" /\ ArrayIndex(v, seg) > 0 -> v.c[ArrayIndex(v, seg)]
      [] OTHER -> Undefined

RECURSIVE ValueAt(_, _)
\* The value at a location, or undefined.
ValueAt(v, segs) ==
    IF segs = <<>> THEN v ELSE ValueAt(Child(v, Head(segs)), Tail(segs))

RECURSIVE PathText(_)
\* The path the passes write for a location.
PathText(segs) ==
    IF segs = <<>> THEN "" ELSE PathText(SubSeq(segs, 1, Len(segs) - 1)) \o "/" \o segs[Len(segs)]

IsPrefix(p, q) == Len(p) <= Len(q) /\ SubSeq(q, 1, Len(p)) = p

\* The sub-schemas that govern the child under seg of a value governed by
\* schema: properties, then patternProperties, for an object; items for an
\* array.
Governing(schema, v, seg) ==
    CASE v.k = "object" /\ Declared(schema, seg) -> <<PropSchema(schema, seg)>>
      [] v.k = "object" /\ ~Declared(schema, seg) -> ChildSchemas(schema, seg)
      [] v.k = "array" -> schema.items
      [] OTHER -> <<>>

RECURSIVE SchemaFor(_, _, _)
\* The schema that governs a location of v (at most one), from the root schema.
SchemaFor(schema, v, segs) ==
    IF segs = <<>> THEN <<schema>>
    ELSE LET subs == Governing(schema, v, Head(segs))
         IN IF subs = <<>> THEN <<>>
            ELSE SchemaFor(subs[1], Child(v, Head(segs)), Tail(segs))

RECURSIVE Differences(_, _, _)
\* The topmost locations where two values differ.
Differences(a, b, segs) ==
    IF a.k = "object" /\ b.k = "object"
    THEN UNION {IF HasKey(a, key) /\ HasKey(b, key)
                THEN Differences(GetKey(a, key), GetKey(b, key), Append(segs, key))
                ELSE {Append(segs, key)} :
                   key \in {a.keys[i] : i \in 1..Len(a.keys)} \cup {b.keys[i] : i \in 1..Len(b.keys)}}
    ELSE IF a.k = "array" /\ b.k = "array"
    THEN UNION {IF i <= Len(a.c) /\ i <= Len(b.c)
                THEN Differences(a.c[i], b.c[i], Append(segs, IndexText(i)))
                ELSE {Append(segs, IndexText(i))} :
                   i \in 1..(IF Len(a.c) > Len(b.c) THEN Len(a.c) ELSE Len(b.c))}
    ELSE IF Canon(a) = Canon(b) THEN {} ELSE {segs}

RecordsAt(ledger, path, actions) ==
    {i \in 1..Len(ledger) : ledger[i].path = path /\ ledger[i].action \in actions}

AllActions == {"removed", "coerced", "defaulted", "added"}

\* Where a kind of record belongs in the ledger of one call.
PassRank(action) ==
    CASE action = "removed" -> 1
      [] action = "coerced" -> 2
      [] OTHER -> 3

\* C1: in the ledger of one repair call every `removed` record comes before
\* every `coerced` record and every `coerced` record before every `defaulted`
\* or `added` record; a call that returns a result has run each pass exactly
\* once, pruner, then coercer, then default applicator.
C1_PruneCoerceDefaultOrder ==
    /\ \A i, j \in 1..Len(changes) :
          i < j => PassRank(changes[i].action) <= PassRank(changes[j].action)
    /\ Repaired => /\ ran = <<"prune", "coerce", "default">>
                   /\ result.changes = changes

\* A call whose ledger holds a record of each pass.
C1_Witness ==
    /\ Repaired
    /\ \E i, j, m \in 1..Len(result.changes) :
          /\ i < j /\ j < m
          /\ result.changes[i].action = "removed"
          /\ result.changes[j].action = "coerced"
          /\ result.changes[m].action = "defaulted"

\* C2: every difference between the value the passes started from and the
\* returned `repaired` has a change record at the path where it happened; an
\* empty ledger means `repaired` equals the input value.
C2_LedgerRecordsEveryMutation ==
    Repaired =>
        /\ \A d \in Differences(Original, result.repaired, <<>>) :
              RecordsAt(result.changes, PathText(d), AllActions) # {}
        /\ result.changes = <<>> => SameJson(result.repaired, Original)

\* The object keys of `repaired` that the original value does not have at
\* that path.
NewKeys ==
    {loc \in Locations(result.repaired) :
        /\ loc # <<>>
        /\ ValueAt(result.repaired, SubSeq(loc, 1, Len(loc) - 1)).k = "object"
        /\ ValueAt(Original, loc).k = "undefined"}

\* The schema that governs a location of `repaired`.
OwnSchema(loc) == SchemaFor(schemaArg.node, result.repaired, loc)

\* The key's own schema declares `default`, or has type object or array.
LicensedKey(loc) ==
    /\ OwnSchema(loc) # <<>>
    /\ \/ HasDefault(OwnSchema(loc)[1])
       \/ TypeIs(OwnSchema(loc)[1], "object")
       \/ TypeIs(OwnSchema(loc)[1], "array")

\* The key lies inside a value that replaced what the original held at an
\* enclosing location whose schema declares `default`.
InsideDefault(loc) ==
    \E m \in 0..(Len(loc) - 1) :
        LET p == SubSeq(loc, 1, m)
        IN /\ OwnSchema(p) # <<>>
           /\ HasDefault(OwnSchema(p)[1])
           /\ ValueAt(Original, p).k # ValueAt(result.repaired, p).k

\* The key lies inside a value the coercer converted (wrapped into an array).
InsideCoerced(loc) ==
    \E m \in 0..(Len(loc) - 1) :
        RecordsAt(result.changes, PathText(SubSeq(loc, 1, m)), {"coerced"}) # {}

\* C3 as stated: every object key present in `repaired` but absent at that
\* path in the original value is a key whose own schema declares `default`
\* or whose own schema type is object or array.
C3_OnlyLicensedKeys ==
    Repaired => \A loc \in NewKeys : LicensedKey(loc)

\* C3, amended: every object key present in `repaired` but absent at that
\* path in the original value is a key whose own schema declares `default` or
\* has type object or array, or lies inside a value copied from the default
\* of an enclosing location, or inside a value the coercer wrapped.
C3_OnlyLicensedOrCopiedKeys ==
    Repaired => \A loc \in NewKeys :
                    LicensedKey(loc) \/ InsideDefault(loc) \/ InsideCoerced(loc)

\* A repaired value with a new key filled from the key's own default, next to
\* a key the original had and no default covers.
C3_Witness ==
    /\ Repaired
    /\ \E loc \in NewKeys : LicensedKey(loc) /\ HasDefault(OwnSchema(loc)[1])
    /\ \E loc \in Locations(result.repaired) :
          /\ loc # <<>> /\ loc \notin NewKeys
          /\ OwnSchema(loc) # <<>> /\ ~HasDefault(OwnSchema(loc)[1])

\* Types whose values are scalars.
ScalarTypes == {"string", "number", "integer", "boolean", "null"}

\* The required properties of the object at loc of the original that are
\* missing there, have no default and a scalar type.
MissingRequiredScalars(loc) ==
    LET node == SchemaFor(schemaArg.node, Original, loc)
    IN IF ValueAt(Original, loc).k # "object" \/ node = <<>> THEN {}
       ELSE {name \in {node[1].required[i] : i \in 1..Len(node[1].required)} :
                /\ Declared(node[1], name)
                /\ ~HasKey(ValueAt(Original, loc), name)
                /\ ~HasDefault(PropSchema(node[1], name))
                /\ Len(PropSchema(node[1], name).type) > 0
                /\ \A i \in 1..Len(PropSchema(node[1], name).type) :
                      PropSchema(node[1], name).type[i] \in ScalarTypes}

\* C4: a required property that is missing, has no default and a scalar type
\* stays absent in `repaired`, and every `added` record has `to` equal to an
\* empty object or an empty array.
C4_NoScalarInvented ==
    Repaired =>
        /\ \A loc \in Locations(Original) : \A name \in MissingRequiredScalars(loc) :
              ValueAt(result.repaired, Append(loc, name)).k = "undefined"
        /\ \A i \in 1..Len(result.changes) :
              result.changes[i].action = "added" =>
                  /\ Len(result.changes[i].to) = 1
                  /\ result.changes[i].to[1].k \in {"object", "array"}
                  /\ result.changes[i].to[1].c = <<>>

\* A call that added a container for a required property while a required
\* scalar of the same value stayed missing.
C4_Witness ==
    /\ Repaired
    /\ \E i \in 1..Len(result.changes) : result.changes[i].action = "added"
    /\ \E loc \in Locations(Original) : MissingRequiredScalars(loc) # {}

\* The keys of the original value that additionalProperties: false of their
\* object's governing schema disallows: neither declared in `properties` nor
\* matched by `patternProperties`.
DisallowedKeys ==
    {loc \in Locations(Original) :
        /\ loc # <<>>
        /\ LET p == SubSeq(loc, 1, Len(loc) - 1)
               node == SchemaFor(schemaArg.node, Original, p)
           IN /\ ValueAt(Original, p).k = "object"
              /\ node # <<>>
              /\ node[1].addl = "false"
              /\ ~Declared(node[1], loc[Len(loc)])
              /\ ~MatchesPattern(node[1], loc[Len(loc)])}

\* C5: a key that additionalProperties: false disallows (and whose value
\* matches no declared type: no sub-schema declares one for it) has a
\* `removed` record at its path, and the ledger holds no `coerced` record for
\* that path or any path below it.
C5_RemovedNeverCoerced ==
    Repaired =>
        \A loc \in DisallowedKeys :
            /\ RecordsAt(result.changes, PathText(loc), {"removed"}) # {}
            /\ \A q \in Locations(Original) :
                  IsPrefix(loc, q) => RecordsAt(result.changes, PathText(q), {"coerced"}) = {}

\* The path the schema check reports for a location: "/" for the root.
PointerText(segs) ==
    IF segs = <<>> THEN "/"
    ELSE PathText([i \in 1..Len(segs) |-> EscapePointer(segs[i])])

\* The errors of validate(schema, v).
ErrorsOf(v) == validateJson(schemaArg, v).errors

\* A `required` error for a property that the schema gives a default.
MissingWithDefault(e, v) ==
    /\ e.keyword = "required"
    /\ \E loc \in Locations(v) :
          /\ PointerText(loc) = e.path
          /\ LET node == SchemaFor(schemaArg.node, v, loc)
             IN /\ node # <<>>
                /\ Declared(node[1], e.param)
                /\ HasDefault(PropSchema(node[1], e.param))

\* The errors of the kinds repair targets.
TargetedErrors(v) ==
    {e \in ErrorsOf(v) :
        e.keyword \in {"type", "additionalProperties"} \/ MissingWithDefault(e, v)}

\* The error was reported, with this keyword and path, for the original.
ReportedBefore(e) ==
    \E f \in ErrorsOf(Original) : f.keyword = e.keyword /\ f.path = e.path

\* The error lies at or below a location whose value repair changed.
AtChangedValue(e) ==
    \E d \in Differences(Original, result.repaired, <<>>) :
        \E loc \in Locations(result.repaired) :
            IsPrefix(d, loc) /\ PointerText(loc) = e.path

\* C6 as stated: each `type`, `additionalProperties` or missing-with-default
\* `required` error of validate(schema, repaired) has the keyword and path of
\* some error of validate(schema, x).
C6_NoNewTargetedError ==
    Repaired => \A e \in TargetedErrors(result.repaired) : ReportedBefore(e)

\* C6, amended: each such error of the repaired value has the keyword and
\* path of some error of the original value, or lies at or below a location
\* whose value repair changed (converted by the coercer or filled from a
\* default).
C6_NewTargetedErrorOnlyWhereChanged ==
    Repaired => \A e \in TargetedErrors(result.repaired) :
                    ReportedBefore(e) \/ AtChangedValue(e)

\* A repaired value that keeps a targeted error of the original, at a place
\* repair left alone, while the ledger shows that repair did change the value.
C6_Witness ==
    /\ Repaired
    /\ result.changes # <<>>
    /\ \E e \in TargetedErrors(result.repaired) : ReportedBefore(e) /\ ~AtChangedValue(e)

\* C7: when the value repair returns equals the value it was given, the
\* change ledger of that call is empty.
C7_FixedPointHasEmptyLedger ==
    (Repaired /\ SameJson(result.repaired, Original)) => result.changes = <<>>

\* No container of the value is held by the caller or by the schema.
OwnedThroughout(v) == \A loc \in Locations(v) : ValueAt(v, loc).owner = "own"

\* C8: no step of a repair call, successful or failed, changes the caller's
\* instance or the schema, and the returned `repaired` shares no container
\* with either, so changing it later cannot change the schema's defaults.
C8_InputsNeverMutated ==
    [][/\ input' = input
       /\ schemaArg' = schemaArg
       /\ (pc' = "done" /\ result'.ok) => OwnedThroughout(result'.repaired)]_vars

\* A call on a caller's container that filled in a container default: the
\* ledger still points at the schema's default, `repaired` holds copies.
C8_Witness ==
    /\ Repaired
    /\ IsContainer(input.value) /\ input.value.owner = "caller"
    /\ \E i \in 1..Len(result.changes) :
          /\ result.changes[i].action = "defaulted"
          /\ result.changes[i].to[1].owner = "schema"
          /\ \E loc \in Locations(result.repaired) :
                /\ PathText(loc) = result.changes[i].path
                /\ SameJson(ValueAt(result.repaired, loc), result.changes[i].to[1])

\* The empty object.
EmptyObject == JObj(<<>>, <<>>, "own")

\* C9: with a schema the check accepts and an input that parses, repair
\* answers ok: true with `repaired` and `changes`, also when the repaired
\* value still fails validation; the strict schema (two required strings)
\* with input {} returns {} unchanged, and validating that again reports the
\* two `required` errors.
C9_RepairIsAdvisory ==
    (Finished /\ ~SchemaRejected(schemaArg) /\ AjvCompiles(schemaArg) /\ Parseable) =>
        /\ result.ok
        /\ result.changes = changes
        /\ (schemaArg.node = StrictSchema /\ SameJson(Original, EmptyObject)) =>
              /\ SameJson(result.repaired, EmptyObject)
              /\ result.changes = <<>>
              /\ ~validateJson(schemaArg, result.repaired).valid
              /\ ErrorsOf(result.repaired) =
                    {AjvError("required", "/", "id"), AjvError("required", "/", "data")}

\* The strict schema with input {}: answered ok, with the warning that the
\* repaired value still has validation errors.
C9_Witness ==
    /\ Repaired
    /\ schemaArg.node = StrictSchema
    /\ SameJson(Original, EmptyObject)
    /\ result.warnings # <<>>

\* C10: repair answers INVALID_INPUT for exactly the schemas for which
\* validate answers INVALID_INPUT, whatever the instance or text is, and for
\* such a schema no pass has run.
C10_InvalidSchemaBeforeTraversal ==
    Finished =>
        LET rejected == validateJson(schemaArg, Original).code = "INVALID_INPUT"
        IN /\ rejected <=> result.code = "INVALID_INPUT"
           /\ rejected => ran = <<>>


\* The schema is one both entry points accept: an object that compiles.
Acceptable == ~SchemaRejected(schemaArg) /\ AjvCompiles(schemaArg)

\* The input is a text that neither the strict parse nor the parse of the
\* rewritten text accepts.
Unrecoverable ==
    /\ input.isText
    /\ ~JsonParse(input.text).ok
    /\ ~JsonParse(RewriteText(input.text)).ok

\* An instance or a text was passed (the argument was not left out).
Supplied == input.isText \/ input.value.k # "undefined"

Answered == pc = "answered"
SurfacedCodes == {"INVALID_INPUT", "PARSE_ERROR", "INTERNAL_ERROR"}
WellFormedEnvelope(r) ==
    \/ r.ok /\ r.hasData /\ ~r.hasError
    \/ /\ ~r.ok /\ ~r.hasData /\ r.hasError
       /\ r.code \in SurfacedCodes
       /\ r.message # <<>> /\ \E i \in 1..Len(r.message) : r.message[i] # ""

C12_EveryCallReturnsEnvelope ==
    (Answered /\ call.tool \in ToolNames) =>
        /\ reply.kind = "content"
        /\ WellFormedEnvelope(result)

\* explain met an element it cannot read, and answered INTERNAL_ERROR.
C12_Witness ==
    /\ Answered /\ call.tool = "explain_validation" /\ call.given
    /\ call.errors.shape = "array"
    /\ result.code = "INTERNAL_ERROR" /\ ~result.ok

(***************************************************************************)
(* C13: for an acceptable schema validate succeeds for every instance,     *)
(* valid is true exactly when errors is empty, and the errors are Ajv's    *)
(* errors with the root's path written "/" and every other path unchanged. *)
(***************************************************************************)
ValidateAnswered ==
    Answered /\ call.tool = "validate_json" /\ call.given /\ Acceptable
AjvErrors == AjvCheck(input.value, schemaArg.node, "", FALSE).errs

C13_ValidateReportsViolationsAsData ==
    ValidateAnswered =>
        /\ result.ok
        /\ result.valid <=> result.errors = {}
        /\ result.valid <=> AjvErrors = {}
        /\ \A e \in AjvErrors :
              IF e.path = "" THEN [e EXCEPT !.path = "/"] \in result.errors
              ELSE e \in result.errors
        /\ \A e \in result.errors :
              /\ e.path # ""
              /\ \/ e \in AjvErrors
                 \/ e.path = "/" /\ [e EXCEPT !.path = ""] \in AjvErrors

\* An instance with one violation at the root and one below it.
C13_Witness ==
    /\ ValidateAnswered /\ ~result.valid
    /\ \E e \in result.errors : e.path = "/"
    /\ \E e \in result.errors : e.path # "/"

(***************************************************************************)
(* C14: explain fails with INVALID_INPUT exactly when errors is not a      *)
(* sequence; for every sequence of validation errors it succeeds with one  *)
(* explanation per error, in order, each with that error's path and        *)
(* message.                                                                *)
(***************************************************************************)
ExplainAnswered == Answered /\ call.tool = "explain_validation" /\ call.given
\* A ValidationError: an object with path, keyword, message and a params
\* mapping.
IsValidationError(e) ==
    e.shape = "object" /\ ~e.ajv /\ e.message # <<>> /\ e.params.k = "object"

C14_ExplainOnePerError ==
    ExplainAnswered =>
        /\ result.code = "INVALID_INPUT" <=> call.errors.shape # "array"
        /\ (/\ call.errors.shape = "array"
            /\ \A i \in 1..Len(call.errors.items) : IsValidationError(call.errors.items[i]))
           => /\ result.ok
              /\ Len(result.explanations) = Len(call.errors.items)
              /\ \A i \in 1..Len(call.errors.items) :
                    /\ result.explanations[i].path = call.errors.items[i].path
                    /\ result.explanations[i].error = call.errors.items[i].message

(***************************************************************************)
(* C15: the Diagnostic Translator is total.  For every keyword and every   *)
(* params mapping it returns an explanation and a suggestion; the root     *)
(* path is rendered as root and any other path as the quoted pointer, a    *)
(* keyword outside the table gets the fallback that names it, and minimum  *)
(* yields a suggestion that begins with Increase.                          *)
(***************************************************************************)
Pieces(text) == {text[i] : i \in 1..Len(text)}
TranslatedWell(keyword, params, path) ==
    LET told == getKeywordExplanation(keyword, params, path)
    IN /\ ~told.threw
       /\ told.explanation # <<>> /\ told.suggestion # <<>>
       /\ (IF path \in {"", "/"} THEN "root" ELSE "\"" \o path \o "\"") \in Pieces(told.explanation)
       /\ keyword \notin TableKeywords =>
             /\ told.explanation[1] = "Validation failed at "
             /\ keyword \in Pieces(told.explanation) /\ keyword \in Pieces(told.suggestion)
       /\ keyword = "minimum" => told.suggestion[1] = "Increase"

C15_TranslatorIsTotal ==
    (ExplainAnswered /\ call.errors.shape = "array") =>
        \A i \in 1..Len(call.errors.items) :
            LET e == call.errors.items[i]
            IN (e.shape = "object" /\ e.params.k = "object") =>
                  TranslatedWell(normalizeError(e).keyword, normalizeError(e).params,
                                 normalizeError(e).path)

(***************************************************************************)
(* C16: the Text Recovery Pass tries a strict parse first and, if it       *)
(* succeeds, hands on the parsed value with no diagnostics and no rewrite. *)
(* Otherwise it applies the rewrites once, in the order trailing commas,   *)
(* single quotes, bare keys, comments, undefined/NaN, re-parses once, and  *)
(* ends with two diagnostics: the strict-parse failure and then the        *)
(* repaired line or the could-not-repair line.  parseErrors is present in  *)
(* the repair result exactly when the strict parse failed.                 *)
(***************************************************************************)
StrictFailedLine == "Standard JSON parse failed, attempting repairs..."
RepairedLine == "JSON repaired successfully with syntax fixes"
CouldNotRepairLine == "Could not repair JSON syntax"
\* The rewrites, one after the other, in the order the claim gives.
RewrittenInOrder(t) ==
    LET commas == StripTrailingCommas(t, 1)
        quotes == ReplaceSingleQuotes(commas)
        bare == QuoteBareKeys(quotes, 1)
        comments == StripBlockComments(StripLineComments(bare, 1), 1)
        undef == ReplaceBareToken(comments, <<"u", "n", "d", "e", "f", "i", "n", "e", "d">>, 1)
    IN ReplaceBareToken(undef, <<"N", "a", "N">>, 1)
TextTaken == input.isText /\ ~SchemaRejected(schemaArg) /\ pc # "start"

C16_TextRecoveryProtocol ==
    /\ TextTaken =>
         LET strict == JsonParse(input.text)
             second == JsonParse(RewrittenInOrder(input.text))
         IN /\ strict.ok =>
                 /\ parseErrors = <<>>
                 /\ pc = PassOrder[1] => instance = strict.v
            /\ (~strict.ok /\ second.ok) =>
                 /\ parseErrors = <<StrictFailedLine, RepairedLine>>
                 /\ pc = PassOrder[1] => instance = second.v
            /\ (~strict.ok /\ ~second.ok) =>
                 /\ parseErrors = <<StrictFailedLine, CouldNotRepairLine>>
                 /\ Finished /\ result.code = "PARSE_ERROR"
                 /\ result.parseErrors = parseErrors
            /\ Repaired => (result.parseErrors # <<>> <=> ~strict.ok)
            /\ Repaired => result.parseErrors = parseErrors
    /\ (Repaired /\ ~input.isText) => result.parseErrors = <<>>

\* A text with a trailing comma was rewritten and repaired.
C16_Witness ==
    /\ Repaired /\ input.isText /\ ~JsonParse(input.text).ok
    /\ result.parseErrors = <<StrictFailedLine, RepairedLine>>

(***************************************************************************)
(* C17: the path of a change record identifies the location that was       *)
(* changed.  Resolving the '/'-delimited path against the working value    *)
(* before the action (removed, coerced, a default that replaces a value)   *)
(* or after it (added, a default that fills a gap) reaches the value the   *)
(* record holds in from or to, whatever keys the input has.                *)
(***************************************************************************)
\* The keys of the universe that contain the delimiter.
SlashKeys == {"id/x"}
\* getAtPath: path.split('/').filter(p => p !== ''), then one lookup per part.
getAtPath(obj, path) ==
    IF path = "" \/ path = "/" THEN obj
    ELSE LET hits == {segs \in Locations(obj) :
                         /\ segs # <<>>
                         /\ \A i \in 1..Len(segs) : segs[i] \notin SlashKeys /\ segs[i] # ""
                         /\ PathText(segs) = path}
         IN IF hits = {} THEN Undefined ELSE ValueAt(obj, CHOOSE segs \in hits : TRUE)

\* The record a pass appended, when it appended exactly one.
OneRecordAdded == Len(changes') = Len(changes) + 1
C17_StepResolves ==
    OneRecordAdded =>
        LET r == changes'[Len(changes')]
        IN /\ r.action \in {"removed", "coerced"} =>
                 r.from # <<>> /\ SameJson(getAtPath(instance, r.path), r.from[1])
           /\ r.action = "added" =>
                 r.to # <<>> /\ SameJson(getAtPath(instance', r.path), r.to[1])
           /\ r.action = "defaulted" =>
                 IF r.from # <<>>
                 THEN SameJson(getAtPath(instance, r.path), r.from[1])
                 ELSE r.to # <<>> /\ SameJson(getAtPath(instance', r.path), r.to[1])

C17_RecordPathResolves == [][C17_StepResolves]_vars

(***************************************************************************)
(* C18: a call that names a tool other than validate_json,                 *)
(* explain_validation or repair_json is answered, on every transport, with *)
(* an error envelope: ok false, code INVALID_INPUT, a message that         *)
(* contains "Unknown tool"; no entry point is invoked.                     *)
(***************************************************************************)
UnknownAnswered == Answered /\ call.tool \notin ToolNames

C18_UnknownToolIsInvalidInput ==
    UnknownAnswered =>
        /\ reply.kind = "content"
        /\ ~result.ok /\ result.hasError /\ ~result.hasData
        /\ result.code = "INVALID_INPUT"
        /\ result.message # <<>> /\ result.message[1] = "Unknown tool: "
        /\ reply.invoked = {}

(***************************************************************************)
(* C19: the pruning rule.  At every object node whose governing schema has *)
(* additionalProperties false, each key that is neither declared nor       *)
(* matched by a pattern is removed and has exactly one removed record that *)
(* holds its value, and each declared or matched key stays; at a node      *)
(* whose schema leaves additionalProperties true or absent no key is       *)
(* removed.                                                                *)
(***************************************************************************)
\* The pruner has just run on the value the call started from.
Pruned == ran = <<"prune">> /\ PassOrder[1] = "prune"
\* The object nodes of the original value that are still there.
KeptObjects ==
    {p \in Locations(Original) :
        ValueAt(Original, p).k = "object" /\ ValueAt(instance, p).k = "object"}
Closed(p) ==
    LET node == SchemaFor(schemaArg.node, Original, p)
    IN node # <<>> /\ node[1].addl = "false"
Allowed(p, key) ==
    LET node == SchemaFor(schemaArg.node, Original, p)
    IN Declared(node[1], key) \/ MatchesPattern(node[1], key)
RemovedRecords(path) == RecordsAt(changes, path, {"removed"})

C19_PruningRule ==
    Pruned =>
        \A p \in KeptObjects :
            LET before == ValueAt(Original, p)
                after == ValueAt(instance, p)
            IN \A i \in 1..Len(before.keys) :
                  LET key == before.keys[i]
                      path == PathText(Append(p, key))
                  IN IF Closed(p) /\ ~Allowed(p, key)
                     THEN /\ ~HasKey(after, key)
                          /\ Cardinality(RemovedRecords(path)) = 1
                          /\ \A j \in RemovedRecords(path) :
                                SameJson(changes[j].from[1], GetKey(before, key))
                     ELSE /\ HasKey(after, key)
                          /\ RemovedRecords(path) = {}

(***************************************************************************)
(* C20: the pruner recurses through every kept key: below declared keys,   *)
(* below keys matched by patternProperties, through array elements and     *)
(* through nodes that allow additional properties.  So after pruning no    *)
(* disallowed key is left at any depth below kept keys.                    *)
(***************************************************************************)
\* The keys left in the working value that the node above them, a node the
\* pruner prunes when it gets there, does not allow.
SurvivingDisallowedKeys ==
    {loc \in Locations(instance) :
        /\ loc # <<>>
        /\ LET p == SubSeq(loc, 1, Len(loc) - 1)
               node == SchemaFor(schemaArg.node, instance, p)
           IN /\ ValueAt(instance, p).k = "object"
              /\ node # <<>>
              /\ node[1].addl = "false"
              /\ TypeIs(node[1], "object") \/ node[1].hasProps
              /\ ~Declared(node[1], loc[Len(loc)])
              /\ ~MatchesPattern(node[1], loc[Len(loc)])}

C20_PrunerReachesEveryDepth ==
    Pruned => SurvivingDisallowedKeys = {}

(***************************************************************************)
(* C21: an object schema that declares neither properties nor              *)
(* patternProperties imposes no shape.  At a value it governs, even with   *)
(* type object and additionalProperties false, the pruner removes no key   *)
(* and the Default Applicator adds none.                                   *)
(***************************************************************************)
\* The object nodes of the working value whose schema declares no shape.
ShapelessObjects ==
    {p \in Locations(instance) :
        /\ ValueAt(instance, p).k = "object"
        /\ LET node == SchemaFor(schemaArg.node, instance, p)
           IN node # <<>> /\ ~node[1].hasProps /\ node[1].patNames = <<>>}
KeySet(obj) == {obj.keys[i] : i \in 1..Len(obj.keys)}
C21_StepKeepsShapeless ==
    pc \in {"prune", "default"} =>
        \A p \in ShapelessObjects :
            ValueAt(instance', p).k = "object" =>
                KeySet(ValueAt(instance', p)) = KeySet(ValueAt(instance, p))

C21_ShapelessSchemaUntouched == [][C21_StepKeepsShapeless]_vars

(***************************************************************************)
(* C22: a value that already matches is never coerced.  When the runtime   *)
(* type of a value is one of the types its schema allows (a whole number   *)
(* under integer, also in a list of types), the coercer logs no coerced    *)
(* record at its path and leaves a scalar as it is.                        *)
(***************************************************************************)
\* The schema that governs p allows the value at p as it is.
AlreadyMatches(p) ==
    LET node == SchemaFor(schemaArg.node, instance, p)
    IN /\ node # <<>>
       /\ \E i \in 1..Len(node[1].type) : DataHasType(ValueAt(instance, p), node[1].type[i])
\* The records the step appended.
NewRecords == {changes'[i] : i \in (Len(changes) + 1)..Len(changes')}
C22_StepLeavesMatching ==
    pc = "coerce" =>
        \A p \in Locations(instance) :
            AlreadyMatches(p) =>
                /\ \A r \in NewRecords : ~(r.action = "coerced" /\ r.path = PathText(p))
                /\ ~IsContainer(ValueAt(instance, p)) =>
                      ValueAt(instance', p) = ValueAt(instance, p)

C22_MatchingNeverCoerced == [][C22_StepLeavesMatching]_vars

(***************************************************************************)
(* C23: the coercer converts scalars only.  An object or array whose type  *)
(* is none of the types its schema allows is never replaced by a string    *)
(* and never wrapped in a sequence; the coercion pass leaves it unchanged  *)
(* and logs nothing for it.                                                *)
(***************************************************************************)
\* The containers of the working value whose schema allows none of their types.
MismatchedContainers ==
    {p \in Locations(instance) :
        /\ IsContainer(ValueAt(instance, p))
        /\ LET node == SchemaFor(schemaArg.node, instance, p)
           IN /\ node # <<>>
              /\ node[1].type # <<>>
              /\ \A i \in 1..Len(node[1].type) :
                    ~DataHasType(ValueAt(instance, p), node[1].type[i])}
\* No ancestor of p was replaced by the step.
PathKept(p) ==
    \A i \in 0..(Len(p) - 1) :
        \A r \in NewRecords : r.path # PathText(SubSeq(p, 1, i))
C23_StepLeavesContainers ==
    pc = "coerce" =>
        \A p \in MismatchedContainers :
            /\ \A r \in NewRecords : ~(r.action = "coerced" /\ r.path = PathText(p))
            /\ PathKept(p) => SameJson(ValueAt(instance', p), ValueAt(instance, p))

C23_ContainersNeverCoerced == [][C23_StepLeavesContainers]_vars

(***************************************************************************)
(* C24: for every target type and every mismatched scalar the coercer's    *)
(* result is the coercion table applied in the schema's type order, first  *)
(* applicable rule winning.  string: any non-string is stringified.        *)
(* number/integer: numeric strings and booleans (1/0) only.  boolean:      *)
(* exactly "true"/"1" to true, "false"/"0"/"" to false, numbers by         *)
(* non-zero.  null: only "" and "null".  Every other source stays as it is *)
(* with no record; each conversion logs exactly one coerced record with    *)
(* the value before and after.                                             *)
(***************************************************************************)
\* A string that spells a number.
NumericString(v) == v.k = "string" /\ \E t \in NumLits : NumToString(t) = v.s
\* The row of the coercion table for a scalar and a target: at most one result.
TableRow(v, target) ==
    CASE target = "string" /\ v.k # "string" -> <<JStr(StringOf(v))>>
      [] target = "number" /\ NumericString(v) -> <<JNum(NumberOf(v.s))>>
      [] target = "integer" /\ NumericString(v) -> <<JNum(MathRound(NumberOf(v.s)))>>
      [] target \in {"number", "integer"} /\ v.k = "boolean" ->
            <<JNum(IF v.n = 1 THEN 10 ELSE 0)>>
      [] target = "boolean" /\ v.k = "string" /\ v.s \in {"true", "1"} -> <<JTrue>>
      [] target = "boolean" /\ v.k = "string" /\ v.s \in {"false", "0", ""} -> <<JFalse>>
      [] target = "boolean" /\ v.k = "number" -> <<JBool(v.n # 0)>>
      [] target = "array" /\ v.k \notin {"null", "array"} -> <<JArr(<<v>>, "own")>>
      [] target = "null" /\ v.k = "string" /\ v.s \in {"", "null"} -> <<JNull>>
      [] OTHER -> <<>>
RECURSIVE TableResult(_, _, _)
\* The first row that applies, in the order of the schema's types.
TableResult(v, types, i) ==
    IF i > Len(types) THEN <<>>
    ELSE IF TableRow(v, types[i]) # <<>> THEN TableRow(v, types[i])
    ELSE TableResult(v, types, i + 1)

RECURSIVE ReachedByCoercer(_, _, _)
\* The coercer gets to the location: every container above it has the type
\* its schema names, and the way down is a declared property or an item.
ReachedByCoercer(schema, v, segs) ==
    IF segs = <<>> THEN TRUE
    ELSE /\ \E i \in 1..Len(schema.type) : schema.type[i] = CurrentType(v)
         /\ IF v.k = "object"
            THEN /\ Declared(schema, Head(segs))
                 /\ ReachedByCoercer(PropSchema(schema, Head(segs)), Child(v, Head(segs)),
                                     Tail(segs))
            ELSE /\ v.k = "array" /\ HasItems(schema)
                 /\ ReachedByCoercer(schema.items[1], Child(v, Head(segs)), Tail(segs))

\* The scalars the coercer gets to whose schema allows none of their types.
MismatchedScalars ==
    {p \in Locations(instance) :
        /\ ~IsContainer(ValueAt(instance, p))
        /\ ReachedByCoercer(schemaArg.node, instance, p)
        /\ LET node == SchemaFor(schemaArg.node, instance, p)
           IN /\ node # <<>> /\ node[1].type # <<>>
              /\ \A i \in 1..Len(node[1].type) :
                    ~DataHasType(ValueAt(instance, p), node[1].type[i])}

C24_StepFollowsTable ==
    pc = "coerce" =>
        \A p \in MismatchedScalars :
            LET before == ValueAt(instance, p)
                row == TableResult(before, SchemaFor(schemaArg.node, instance, p)[1].type, 1)
                logged == {r \in NewRecords : r.path = PathText(p)}
            IN IF row = <<>>
               THEN logged = {} /\ ValueAt(instance', p) = before
               ELSE /\ SameJson(ValueAt(instance', p), row[1])
                    /\ Cardinality({i \in (Len(changes) + 1)..Len(changes') :
                                        changes'[i].path = PathText(p)}) = 1
                    /\ \A r \in logged :
                          /\ r.action = "coerced"
                          /\ r.from = <<before>>
                          /\ r.to # <<>> /\ SameJson(r.to[1], row[1])

C24_CoercionFollowsTable == [][C24_StepFollowsTable]_vars

(***************************************************************************)
(* C25: defaults are filled recursively.  In the value repair returns, at  *)
(* every object node governed by a schema with properties, each declared   *)
(* property that was missing and has a default is present with a copy of   *)
(* the default, and the ledger holds exactly one defaulted record at its   *)
(* path; a property that was present is never overwritten by a             *)
(* property-level default.                                                 *)
(***************************************************************************)
\* The working value as the Default Applicator receives it.
BeforeDefaults ==
    LET pruned == removeAdditionalProperties(deepClone(Original), schemaArg.node, "", <<>>)
    IN applyTypeCoercion(pruned.v, schemaArg.node, "", pruned.ch).v
\* The object nodes that are objects before and after the defaults, with the
\* schema that governs them declaring properties.
DefaultableObjects ==
    {p \in Locations(BeforeDefaults) :
        /\ ValueAt(BeforeDefaults, p).k = "object"
        /\ ValueAt(result.repaired, p).k = "object"
        /\ LET node == SchemaFor(schemaArg.node, BeforeDefaults, p)
           IN node # <<>> /\ node[1].hasProps}
\* The records that fill a gap at path.
GapDefaults(path) ==
    {i \in 1..Len(result.changes) :
        /\ result.changes[i].path = path
        /\ result.changes[i].action = "defaulted"
        /\ result.changes[i].from = <<>>}

C25_DefaultsFilledAndLogged ==
    Repaired =>
        \A p \in DefaultableObjects :
            LET node == SchemaFor(schemaArg.node, BeforeDefaults, p)[1]
                before == ValueAt(BeforeDefaults, p)
                after == ValueAt(result.repaired, p)
            IN \A i \in 1..Len(node.propNames) :
                  LET name == node.propNames[i]
                      path == PathText(Append(p, name))
                  IN IF HasKey(before, name)
                     THEN GapDefaults(path) = {}
                     ELSE HasDefault(node.propSchemas[i]) =>
                            /\ HasKey(after, name)
                            /\ SameJson(GetKey(after, name), node.propSchemas[i].default[1])
                            /\ Cardinality(GapDefaults(path)) = 1

(***************************************************************************)
(* The Schema Navigator.                                                   *)
(***************************************************************************)
\* The segments a navigated path is built from.
NavigatorSegments == {Keys[i] : i \in 1..Len(Keys)} \cup {IndexText(1)}
NavigatorPaths ==
    {<<>>} \cup {<<a>> : a \in NavigatorSegments}
           \cup {<<a, b>> : a \in NavigatorSegments, b \in NavigatorSegments}

\* path.split('/').filter(p => p !== '')
SplitParts(path) ==
    IF \E segs \in NavigatorPaths : PathText(segs) = path
    THEN CHOOSE segs \in NavigatorPaths : PathText(segs) = path
    ELSE <<>>

RECURSIVE NavigateParts(_, _)
\* The loop of getSchemaAtPath over the parts; the result is a sequence
\* holding the schema, or empty for undefined.
NavigateParts(current, parts) ==
    IF parts = <<>> THEN <<current>>
    ELSE IF TypeIs(current, "object") /\ current.hasProps
         THEN IF Declared(current, Head(parts))
              THEN NavigateParts(PropSchema(current, Head(parts)), Tail(parts))
              ELSE <<>>
         ELSE IF TypeIs(current, "array") /\ HasItems(current)
              THEN NavigateParts(current.items[1], Tail(parts))
              ELSE <<>>

getSchemaAtPath(schema, path) ==
    IF path = "" \/ path = "/" THEN <<schema>>
    ELSE NavigateParts(schema, SplitParts(path))

RECURSIVE GoverningSchema(_, _)
\* The sub-schema that governs a path: properties, then patternProperties,
\* on an object schema; items on an array schema.
GoverningSchema(schema, segs) ==
    IF segs = <<>> THEN <<schema>>
    ELSE IF TypeIs(schema, "object")
         THEN LET subs == ChildSchemas(schema, Head(segs))
              IN IF subs = <<>> THEN <<>> ELSE GoverningSchema(subs[1], Tail(segs))
         ELSE IF TypeIs(schema, "array") /\ HasItems(schema)
              THEN GoverningSchema(schema.items[1], Tail(segs))
              ELSE <<>>

\* C26: the Schema Navigator returns the sub-schema governing a path:
\* properties[segment] when declared, else the schema of a matching
\* patternProperties entry, else absent, on an object schema; items on an
\* array schema; the schema itself for the root path '' or '/'.
C26_NavigatorResolves ==
    /\ getSchemaAtPath(schemaArg.node, "/") = <<schemaArg.node>>
    /\ \A segs \in NavigatorPaths :
          getSchemaAtPath(schemaArg.node, PathText(segs)) = GoverningSchema(schemaArg.node, segs)

\* The final step returned a success envelope.
FinalStepRepaired == pc = "validate" /\ pc' = "done" /\ result'.ok

C27_StepKeepsWorkingValue ==
    FinalStepRepaired => /\ instance' = instance
                         /\ result'.repaired = instance

\* C27: the final validation is informational only: the value returned as
\* repaired is exactly the Default Applicator's output; the final schema
\* check adds, removes and changes nothing in the working value.
C27_FinalCheckInformational == [][C27_StepKeepsWorkingValue]_vars

(***************************************************************************)
(* Termination of the passes: the calls each pass makes to itself.         *)
(***************************************************************************)
\* One nested call: the child it is made on, its sub-schema, its segment.
NestedCall(seg, v, sub) == [seg |-> seg, v |-> v, sub |-> sub]

\* A pruner that also descends into the kept keys it has no schema for,
\* with the schema it is in.
NestedCallsKeptKeys(pass, obj, schema) ==
    CASE pass = "prune" ->
           IF obj.k = "array"
           THEN IF HasItems(schema)
                THEN [i \in 1..Len(obj.c) |-> NestedCall(IndexText(i), obj.c[i], schema.items[1])]
                ELSE <<>>
           ELSE IF obj.k = "object" /\ (TypeIs(schema, "object") \/ schema.hasProps)
           THEN LET kept == SelectSeq(obj.keys,
                                LAMBDA key : ~(schema.addl = "false" /\ ~Declared(schema, key)
                                               /\ ~MatchesPattern(schema, key)))
                IN [i \in 1..Len(kept) |->
                      NestedCall(kept[i], GetKey(obj, kept[i]),
                                 IF Declared(schema, kept[i])
                                 THEN PropSchema(schema, kept[i]) ELSE schema)]
           ELSE <<>>
      [] OTHER -> <<>>

\* The calls one invocation of a pass makes to itself, in order.
NestedCalls(pass, obj, schema) ==
    CASE pass = "prune" ->
           IF obj.k = "array"
           THEN IF HasItems(schema)
                THEN [i \in 1..Len(obj.c) |-> NestedCall(IndexText(i), obj.c[i], schema.items[1])]
                ELSE <<>>
           ELSE IF obj.k = "object" /\ (TypeIs(schema, "object") \/ schema.hasProps)
           THEN LET below == SelectSeq(obj.keys,
                                 LAMBDA key : /\ ~(schema.addl = "false" /\ ~Declared(schema, key)
                                                    /\ ~MatchesPattern(schema, key))
                                              /\ Declared(schema, key))
                IN [i \in 1..Len(below) |->
                      NestedCall(below[i], GetKey(obj, below[i]), PropSchema(schema, below[i]))]
           ELSE <<>>
      [] pass = "coerce" ->
           IF schema.type = <<>> /\ ~schema.typeIsList THEN <<>>
           ELSE IF ~\E i \in 1..Len(schema.type) : schema.type[i] = CurrentType(obj) THEN <<>>
           ELSE IF CurrentType(obj) = "object" /\ schema.hasProps
           THEN LET present == SelectSeq(schema.propNames, LAMBDA name : HasKey(obj, name))
                IN [i \in 1..Len(present) |->
                      NestedCall(present[i], GetKey(obj, present[i]), PropSchema(schema, present[i]))]
           ELSE IF CurrentType(obj) = "array" /\ HasItems(schema)
           THEN [i \in 1..Len(obj.c) |-> NestedCall(IndexText(i), obj.c[i], schema.items[1])]
           ELSE <<>>
      [] pass = "default" ->
           IF TypeIs(schema, "object") \/ schema.hasProps
           THEN IF obj.k # "object" THEN <<>>
                ELSE LET present == SelectSeq(schema.propNames, LAMBDA name : HasKey(obj, name))
                     IN [i \in 1..Len(present) |->
                           NestedCall(present[i], GetKey(obj, present[i]),
                                      PropSchema(schema, present[i]))]
           ELSE IF TypeIs(schema, "array") /\ HasItems(schema) /\ obj.k = "array"
           THEN [i \in 1..Len(obj.c) |-> NestedCall(IndexText(i), obj.c[i], schema.items[1])]
           ELSE <<>>
      [] OTHER -> <<>>

RECURSIVE PassVisits(_, _, _, _)
RECURSIVE VisitsBelow(_, _, _, _)
\* The locations a pass is invoked on, one entry per invocation.
PassVisits(pass, obj, schema, segs) ==
    <<segs>> \o VisitsBelow(pass, NestedCalls(pass, obj, schema), segs, 1)
VisitsBelow(pass, calls, segs, i) ==
    IF i > Len(calls) THEN <<>>
    ELSE PassVisits(pass, calls[i].v, calls[i].sub, Append(segs, calls[i].seg))
         \o VisitsBelow(pass, calls, segs, i + 1)

\* The value each pass of the call was started on.
PassInput(pass) ==
    LET pruned == removeAdditionalProperties(deepClone(Original), schemaArg.node, "", <<>>)
    IN CASE pass = "prune" -> deepClone(Original)
         [] pass = "coerce" -> pruned.v
         [] OTHER -> applyTypeCoercion(pruned.v, schemaArg.node, "", pruned.ch).v

RECURSIVE SchemaDepth(_)
\* The nesting depth of a schema: 0 for one without sub-schemas.
SchemaDepth(schema) ==
    LET subs == schema.propSchemas \o schema.items \o schema.patSchemas
    IN IF subs = <<>> THEN 0
       ELSE LET depths == {SchemaDepth(subs[i]) : i \in 1..Len(subs)}
            IN 1 + CHOOSE d \in depths : \A e \in depths : e <= d

\* A pass visited no location twice and never went deeper than the schema.
VisitsBounded(pass) ==
    LET visits == PassVisits(pass, PassInput(pass), schemaArg.node, <<>>)
    IN /\ \A i, j \in 1..Len(visits) : visits[i] = visits[j] => i = j
       /\ \A i \in 1..Len(visits) : Len(visits[i]) <= SchemaDepth(schemaArg.node)

\* A call is synchronous and single-threaded: while it has not returned, its
\* position moves on.
Advance ==
    /\ pc # "done"
    /\ pc' \in {"prune", "coerce", "default", "validate", "done"}
    /\ pc' # pc

LiveSpec == Init /\ [][Next]_vars /\ WF_pc(Advance)

\* C28: every repair call terminates: each of the three passes visits each
\* value node at most once, with recursion depth bounded by the nesting
\* depth of the schema, and the call then returns a result.
C28_RepairTerminates ==
    <>(Finished /\ (result.ok \/ result.hasError)
                /\ \A i \in 1..Len(ran) : VisitsBounded(ran[i]))

\* A returned repair whose passes all went below the root.
C28_Witness ==
    /\ Repaired /\ Len(ran) = 3
    /\ \A i \in 1..Len(ran) :
          Len(PassVisits(ran[i], PassInput(ran[i]), schemaArg.node, <<>>)) > 2

\* The result of a second repair call, made on the value the first returned.
RepairedAgain ==
    repairJson(schemaArg, [isText |-> FALSE, text |-> <<>>, value |-> result.repaired])

\* C29: one repair call reaches a fixed point: repairing the repaired value
\* of a first call yields an empty change ledger and the same value.
C29_RepairReachesFixedPoint ==
    Repaired => /\ RepairedAgain.ok
                /\ RepairedAgain.changes = <<>>
                /\ SameJson(RepairedAgain.repaired, result.repaired)

(***************************************************************************)
(* The HTTP transport's session bookkeeping (src/transport/http.ts).       *)
(* sessions is the Map in insertion order; transports[id] is the state of  *)
(* the transport made for id.                                              *)
(***************************************************************************)
repairVars == <<schemaArg, input, pc, instance, changes, parseErrors, ran, result, call, reply>>

Registered == {sessions[i] : i \in 1..Len(sessions)}
\* sessions.delete(id)
DeleteSession(map, id) == SelectSeq(map, LAMBDA entry : entry # id)
\* randomUUID(): an id never drawn before.
Drawn == {id \in SessionIds : transports[id] # "none"}
FreshIds == {id \in SessionIds : \A other \in SessionIds \ Drawn : id <= other} \ Drawn

\* The server listens; the pipeline's variables stay as constructed.  Whether
\* a client connection outlives httpServer.close() is the runtime's doing.
HttpInit ==
    /\ schemaArg = NoSchema
    /\ input = NoInput
    /\ pc = "listening"
    /\ instance = Undefined
    /\ changes = <<>>
    /\ parseErrors = <<>>
    /\ ran = <<>>
    /\ result = NoResult
    /\ call = NoCall
    /\ reply = NoReply
    /\ sessions = <<>>
    /\ transports = [id \in SessionIds |-> "none"]
    /\ requests = [r \in RequestSlots |-> NoRequest]
    /\ \E keepAlive \in BOOLEAN : shutdown = [NoShutdown EXCEPT !.keepAlive = keepAlive]

\* handleMcpRequest up to its first await, for a request whose header names
\* a registered session: session.transport.handleRequest(req, res).
ReceiveExisting(r) ==
    /\ requests[r].pc = "idle"
    /\ shutdown.pc # "done" \/ shutdown.keepAlive
    /\ \E header \in Registered :
          requests' = [requests EXCEPT ![r] = [pc |-> "handle", header |-> header,
                                               transport |-> header, made |-> {}]]
    /\ UNCHANGED <<sessions, transports, shutdown, repairVars>>

\* handleMcpRequest up to its first await, for any other request: a new id,
\* a new transport, sessions.set, onclose, then mcpServer.connect(transport).
ReceiveNew(r) ==
    /\ requests[r].pc = "idle"
    /\ shutdown.pc # "done" \/ shutdown.keepAlive
    /\ \E header \in (SessionIds \cup {0}) \ Registered, newSessionId \in FreshIds :
          /\ transports' = [transports EXCEPT ![newSessionId] = "open"]
          /\ sessions' = Append(sessions, newSessionId)
          /\ requests' = [requests EXCEPT ![r] = [pc |-> "connect", header |-> header,
                                                   transport |-> 0, made |-> {newSessionId}]]
    /\ UNCHANGED <<shutdown, repairVars>>

\* connect resolved: transport.handleRequest(req, res) on the new transport.
Connected(r) ==
    /\ requests[r].pc = "connect"
    /\ requests' = [requests EXCEPT ![r].pc = "handle",
                                    ![r].transport = CHOOSE id \in requests[r].made : TRUE]
    /\ UNCHANGED <<sessions, transports, shutdown, repairVars>>

\* handleRequest resolved.
Responded(r) ==
    /\ requests[r].pc = "handle"
    /\ requests' = [requests EXCEPT ![r].pc = "done"]
    /\ UNCHANGED <<sessions, transports, shutdown, repairVars>>

\* A transport closes (the client ends the session): transport.onclose
\* runs sessions.delete(newSessionId).
TransportClosed(id) ==
    /\ transports[id] = "open"
    /\ transports' = [transports EXCEPT ![id] = "closed"]
    /\ sessions' = DeleteSession(sessions, id)
    /\ UNCHANGED <<requests, shutdown, repairVars>>

\* SIGINT or SIGTERM: shutdown() starts.
ShutdownStarts ==
    /\ shutdown.pc = "idle"
    /\ shutdown' = [shutdown EXCEPT !.pc = "loop"]
    /\ UNCHANGED <<sessions, transports, requests, repairVars>>

\* The entries the for...of loop has still to reach: the Map's iterator is
\* live, so entries set while the loop awaits are reached too.
Unreached == SelectSeq(sessions, LAMBDA id : id \notin shutdown.seen)

\* One turn of the loop up to its first await: session.transport.close()
\* closes the transport and runs onclose, or throws into the empty catch.
ShutdownClosesNext ==
    /\ shutdown.pc = "loop"
    /\ Unreached # <<>>
    /\ LET id == Head(Unreached)
       IN \/ /\ transports' = [transports EXCEPT ![id] = "closed"]
             /\ sessions' = DeleteSession(sessions, id)
             /\ shutdown' = [shutdown EXCEPT !.pc = "serverClose", !.current = id,
                                             !.seen = @ \cup {id}]
          \/ /\ transports[id] = "open"
             /\ shutdown' = [shutdown EXCEPT !.seen = @ \cup {id}]
             /\ UNCHANGED <<sessions, transports>>
    /\ UNCHANGED <<requests, repairVars>>

\* await session.server.close(): the server closes its transport again.
ShutdownClosesServer ==
    /\ shutdown.pc = "serverClose"
    /\ transports' = [transports EXCEPT ![shutdown.current] = "closed"]
    /\ sessions' = DeleteSession(sessions, shutdown.current)
    /\ shutdown' = [shutdown EXCEPT !.pc = "loop", !.current = 0]
    /\ UNCHANGED <<requests, repairVars>>

\* The loop is over: sessions.clear(), then httpServer.close().
ShutdownFinishes ==
    /\ shutdown.pc = "loop"
    /\ Unreached = <<>>
    /\ sessions' = <<>>
    /\ shutdown' = [shutdown EXCEPT !.pc = "done"]
    /\ UNCHANGED <<transports, requests, repairVars>>

HttpNext ==
    \/ \E r \in RequestSlots : ReceiveExisting(r)
    \/ \E r \in RequestSlots : ReceiveNew(r)
    \/ \E r \in RequestSlots : Connected(r)
    \/ \E r \in RequestSlots : Responded(r)
    \/ \E id \in SessionIds : TransportClosed(id)
    \/ ShutdownStarts
    \/ ShutdownClosesNext
    \/ ShutdownClosesServer
    \/ ShutdownFinishes

HttpSpec == HttpInit /\ [][HttpNext]_vars

\* A request arrived in this step, with a registered id or without one.
Arrived(r) == requests[r].pc = "idle" /\ requests'[r].pc # "idle"

C30_StepKeepsBooks ==
    /\ \A r \in RequestSlots :
          Arrived(r) =>
            IF requests'[r].header \in Registered
            THEN /\ requests'[r].transport = requests'[r].header
                 /\ sessions' = sessions
            ELSE \E id \in SessionIds :
                    /\ transports[id] = "none"
                    /\ sessions' = Append(sessions, id)
                    /\ requests'[r].transport = 0
    /\ \A r \in RequestSlots :
          requests[r].pc # "handle" /\ requests'[r].pc = "handle" /\ ~Arrived(r) =>
            /\ requests'[r].transport \in requests[r].made
            /\ Cardinality(requests[r].made) = 1
    /\ \A id \in Registered :
          id \notin {sessions'[i] : i \in 1..Len(sessions')} => transports'[id] = "closed"
    /\ shutdown'.pc = "done" =>
          /\ sessions' = <<>>
          /\ \A i \in 1..Len(sessions') : transports'[sessions'[i]] # "open"

\* C30: session bookkeeping is consistent under every interleaving of /mcp
\* requests, transport closes and shutdown: a request with a registered id
\* is handled by that session's transport and creates no session; any other
\* request registers exactly one new session under a fresh id before it is
\* handled; an entry leaves the map only after its transport was closed;
\* once shutdown has finished the map is empty.
C30_SessionBookkeeping == [][C30_StepKeepsBooks]_vars
====
